---- MODULE Spec2Model ----
(***************************************************************************)
(* Model of the datashare-network client (dsnetclient): the repository     *)
(* (repository.py, models.py), the coordinator handlers (api.py) and the   *)
(* address-match message retriever (message_retriever.py).                 *)
(*                                                                         *)
(* The bulletin-board server and the remote peers are the environment.     *)
(* The Conversation / PigeonHole classes come from the dsnet core library; *)
(* their behaviour is modelled as the repository's tests exercise it.      *)
(***************************************************************************)
EXTENDS Integers, Sequences, FiniteSets, TLC

\* ------------------------------------------------------------------ bounds
MaxNodes == 2          \* node key pairs that can be peers (node 1 is this node)
MaxQueryKeys == 1      \* query key pairs generated on the broadcast channel
MaxTokens == 2         \* tokens ever saved
MaxServerMsgs == 3     \* messages the server ever holds in its pigeonholes
MaxConversations == 3  \* rows of the conversation table
NbShort == 2           \* number of distinct short addresses (3-byte prefixes)
MaxQueued == 3         \* messages ever accepted by QueueMessageSender.send
MaxTicks == 4          \* sleeps the queue sender's task completes
MaxFrames == 2         \* frames received that the listener's history counts
MaxMessages == 3       \* messages of a conversation held in memory
MaxMessageRows == 5    \* rows of the message table
MaxTime == 2           \* timestamps a sender may stamp a message with
MaxCalls == 2          \* send_publication / get_or_create_nym calls in flight
MaxPublications == 2   \* send_publication calls ever started
MaxSecrets == 2        \* MSPSI secrets a querier may draw

\* ------------------------------------------------------------ key material
\* A key pair is a number k >= 1: the public key is k, the secret key is -k.
Me == 1
Nodes == 1..MaxNodes
QueryKeyIds == (MaxNodes + 1)..(MaxNodes + MaxQueryKeys)
MasterKeys == {"mkA", "mkB"}
None == 0

get_public_key(secret_key) == 0 - secret_key

\* X25519: DH(secret a, public b) = DH(secret b, public a)
compute_dhke(secret_key, public_key) == {get_public_key(secret_key), public_key}

\* index content and payloads: a payload is a set of terms
Entities == {"foo", "bar"}
QueryPayloads == {{"foo", "baz"}}
RemotePayloads == {{"bar", "qux"}}
NoAddress == [dh |-> {}, kfh |-> None, n |-> 0]

\* address = H(dh_key, key_for_hash, message_number): injective on 32 bytes
PigeonHoleAddress(dh_key, key_for_hash, message_number) ==
    [dh |-> dh_key, kfh |-> key_for_hash, n |-> message_number]

RECURSIVE SumSet(_)
SumSet(S) == IF S = {} THEN 0 ELSE LET x == CHOOSE x \in S : TRUE IN x + SumSet(S \ {x})

\* PigeonHoleNotification.from_address(address).adr_hex: the first 3 bytes
\* of the address, a truncation, so distinct addresses can share it.
AdrHex(address) == (SumSet(address.dh) + address.kfh * address.n) % NbShort

Shorts == 0..(NbShort - 1)

\* PigeonHole.encrypt / decrypt: only the pigeonhole of the same address decrypts
Encrypt(address, data) == [data |-> data, enc |-> address]
Clear(data) == [data |-> data, enc |-> NoAddress]
Decrypt(address, payload) ==
    IF payload.enc = address THEN Clear(payload.data) ELSE Clear({"undecipherable"})

\* ------------------------------------------------------------------- state
VARIABLES
    peer,           \* peer table: sequence of public keys (unique on public_key)
    token,          \* token table: rows [secret_key, token, timestamp]
    server_key,     \* server_key table: rows [master_key, timestamp]
    conversation,   \* conversation table: sequence of rows, id = position
    pigeonhole,     \* pigeonhole table: set of rows, primary key address
    message,        \* message table: sequence of rows, id = position
    publication_message, \* publication_message table: set of rows
    clock,          \* utcnow() as the message timestamps see it
    nbKeys,         \* ephemeral key pairs generated so far
    nbTokens,       \* tokens generated so far
    bulletin,       \* the server's bulletin board: queries broadcast to every node
    ph_server,      \* the server's pigeonholes: set of pigeonhole messages
    popped,         \* tokens returned by pop_token so far
    last,           \* last operation: its outcome and the HTTP requests it made
    sender,         \* the QueueMessageSender: its fields and its task's position
    listener,       \* DsnetApi.start_listening: its locals, stop, ws, its position
    reachable,      \* the server accepts WebSocket connections
    in_memory,      \* a Conversation object held in memory by a caller
    parameter,      \* parameter table: rows [key, value], primary key key
    publication,    \* publication table: sequence of rows, id = position
    calls,          \* send_publication / get_or_create_nym calls in flight
    nbUuids,        \* uuid4() values generated so far
    responder       \* the publication table of the peer that answers queries

vars == <<peer, token, server_key, conversation, pigeonhole, message,
          publication_message, clock, nbKeys, nbTokens, bulletin, ph_server,
          popped, last, sender, listener, reachable, in_memory,
          parameter, publication, calls, nbUuids, responder>>

DB == [conversation |-> conversation, pigeonhole |-> pigeonhole, message |-> message]

tables == <<conversation, pigeonhole, message>>

\* the other tables, the clock and the server
rest == <<peer, token, server_key, publication_message, clock, nbKeys, nbTokens,
          bulletin, ph_server, popped, last>>

\* ------------------------------------------------- dsnet.core Conversation
\* in-memory message
PigeonHoleMessage(address, payload, from_key, timestamp) ==
    [address |-> address, payload |-> payload, from_key |-> from_key, timestamp |-> timestamp]

PigeonHole(dh_key, message_number, key_for_hash, conversation_id) ==
    [address |-> PigeonHoleAddress(dh_key, key_for_hash, message_number),
     dh_key |-> dh_key, key_for_hash |-> key_for_hash,
     message_number |-> message_number, conversation_id |-> conversation_id]

Conversation(secret_key, other_public_key, querier, query, pigeonholes, messages, id) ==
    [id |-> id, secret_key |-> secret_key, public_key |-> get_public_key(secret_key),
     other_public_key |-> other_public_key, querier |-> querier, query |-> query,
     pigeonholes |-> pigeonholes, messages |-> messages]

RECURSIVE CountFrom(_, _, _)
CountFrom(msgs, key, same) ==
    IF msgs = <<>> THEN 0
    ELSE (IF (Head(msgs).from_key = key) = same THEN 1 ELSE 0) + CountFrom(Tail(msgs), key, same)

\* counters are not stored: they are recomputed from the messages
nb_sent_messages(c) == CountFrom(c.messages, c.public_key, TRUE)
nb_recv_messages(c) ==
    CountFrom(c.messages, c.public_key, FALSE) + (IF c.querier THEN 0 ELSE 1)

\* the pigeonhole the conversation listens on next: written by the other side
next_listening_pigeonhole(c) ==
    PigeonHole(compute_dhke(c.secret_key, c.other_public_key), nb_recv_messages(c),
               c.other_public_key, c.id)

sending_pigeonhole(c) ==
    PigeonHole(compute_dhke(c.secret_key, c.other_public_key), nb_sent_messages(c),
               c.public_key, c.id)

with_next_pigeonhole(c) ==
    [c EXCEPT !.pigeonholes =
        {ph \in @ : ph.address # next_listening_pigeonhole(c).address}
            \cup {next_listening_pigeonhole(c)}]

create_from_querier(secret_key, other_public_key, query, now) ==
    with_next_pigeonhole(
        Conversation(secret_key, other_public_key, TRUE, query, {},
                     <<PigeonHoleMessage(NoAddress, Clear(query), get_public_key(secret_key), now)>>,
                     None))

create_from_recipient(secret_key, other_public_key) ==
    Conversation(secret_key, other_public_key, FALSE, {}, {}, <<>>, None)

\* the message put on the wire by create_response
response_message(c, data, now) ==
    PigeonHoleMessage(sending_pigeonhole(c).address,
                      Encrypt(sending_pigeonhole(c).address, data), c.public_key, now)

\* the conversation after create_response: the clear message is logged
create_response(c, data, now) ==
    with_next_pigeonhole(
        [c EXCEPT !.messages =
            Append(@, PigeonHoleMessage(sending_pigeonhole(c).address, Clear(data),
                                        c.public_key, now))])

is_receiving(c, address) == \E ph \in c.pigeonholes : ph.address = address

\* add_message: consume the pigeonhole of the message, log the clear text,
\* listen on the next slot
add_message(c, msg) ==
    with_next_pigeonhole(
        [c EXCEPT !.pigeonholes = {ph \in @ : ph.address # msg.address},
                  !.messages = Append(@, [msg EXCEPT !.payload = Decrypt(msg.address, @)])])

\* ------------------------------------------------ SqlalchemyRepository
\* rows of the pigeonhole table of one conversation
pigeonhole_rows_of(db, conversation_id) ==
    {row \in db.pigeonhole : row.conversation_id = conversation_id}

\* save_pigeonhole: INSERT, an existing address (primary key) is ignored
save_pigeonhole(table, ph, conversation_id) ==
    IF \E row \in table : row.address = ph.address
    THEN table
    ELSE table \cup {[address |-> ph.address, adr_hex |-> AdrHex(ph.address),
                      dh_key |-> ph.dh_key, key_for_hash |-> ph.key_for_hash,
                      message_number |-> ph.message_number,
                      conversation_id |-> conversation_id]}

RECURSIVE save_pigeonholes(_, _, _)
save_pigeonholes(table, phs, conversation_id) ==
    IF phs = {} THEN table
    ELSE LET ph == CHOOSE ph \in phs : TRUE
         IN save_pigeonholes(save_pigeonhole(table, ph, conversation_id),
                             phs \ {ph}, conversation_id)

\* _save_message: INSERT; the message table has no unique column but id,
\* so the IntegrityError branch is never taken
_save_message(table, msg, conversation_id) ==
    Append(table, [address |-> msg.address, timestamp |-> msg.timestamp,
                   from_key |-> msg.from_key, payload |-> msg.payload,
                   conversation_id |-> conversation_id])

RECURSIVE _save_messages(_, _, _)
_save_messages(table, msgs, conversation_id) ==
    IF msgs = <<>> THEN table
    ELSE _save_messages(_save_message(table, Head(msgs), conversation_id),
                        Tail(msgs), conversation_id)

\* save_conversation that never deletes a persisted pigeonhole
save_conversation_KeepsPruned(db, c) ==
    LET isNew == c.id = None
        conversation_id == IF isNew THEN Len(db.conversation) + 1 ELSE c.id
    IN [conversation |->
            IF isNew
            THEN Append(db.conversation,
                        [id |-> conversation_id, secret_key |-> c.secret_key,
                         public_key |-> c.public_key,
                         other_public_key |-> c.other_public_key,
                         querier |-> c.querier, query |-> c.query])
            ELSE db.conversation,
        pigeonhole |-> save_pigeonholes(db.pigeonhole, c.pigeonholes, conversation_id),
        message |-> _save_messages(db.message, c.messages, conversation_id)]

\* save_conversation: insert the row when the conversation has no id; else
\* delete the persisted pigeonholes the conversation no longer holds; then
\* save every pigeonhole and every message of the conversation
save_conversation(db, c) ==
    LET isNew == c.id = None
        conversation_id == IF isNew THEN Len(db.conversation) + 1 ELSE c.id
        conversation_addresses == {ph.address : ph \in c.pigeonholes}
        addresses_in_db == {row.address : row \in pigeonhole_rows_of(db, conversation_id)}
        diff == addresses_in_db \ conversation_addresses
        kept == IF isNew THEN db.pigeonhole
                ELSE {row \in db.pigeonhole : row.address \notin diff}
    IN [conversation |->
            IF isNew
            THEN Append(db.conversation,
                        [id |-> conversation_id, secret_key |-> c.secret_key,
                         public_key |-> c.public_key,
                         other_public_key |-> c.other_public_key,
                         querier |-> c.querier, query |-> c.query])
            ELSE db.conversation,
        pigeonhole |-> save_pigeonholes(kept, c.pigeonholes, conversation_id),
        message |-> _save_messages(db.message, c.messages, conversation_id)]

\* _pigeonhole_from_row
_pigeonhole_from_row(row) ==
    PigeonHole(row.dh_key, row.message_number, row.key_for_hash, row.conversation_id)

\* get_pigeonholes_by_adr without its WHERE clause
get_pigeonholes_by_adr_AllRows(db, adr_hex) ==
    {_pigeonhole_from_row(row) : row \in db.pigeonhole}

\* get_pigeonholes_by_adr: exact match on the short address
get_pigeonholes_by_adr(db, adr_hex) ==
    {_pigeonhole_from_row(row) : row \in {r \in db.pigeonhole : r.adr_hex = adr_hex}}

\* _merge_conversations keeping every row as a message
RECURSIVE merge_messages_EveryRow(_, _)
merge_messages_EveryRow(rows, acc) ==
    IF rows = <<>> THEN acc
    ELSE LET r == Head(rows)
         IN merge_messages_EveryRow(Tail(rows),
                Append(acc, PigeonHoleMessage(r.address, r.payload, r.from_key, r.timestamp)))

\* messages_dict[id][address] = message: one message per address, the last
\* row wins, in the order the addresses first appear
RECURSIVE merge_messages(_, _)
merge_messages(rows, acc) ==
    IF rows = <<>> THEN acc
    ELSE LET r == Head(rows)
             m == PigeonHoleMessage(r.address, r.payload, r.from_key, r.timestamp)
         IN IF \E i \in 1..Len(acc) : acc[i].address = r.address
            THEN merge_messages(Tail(rows),
                    [i \in 1..Len(acc) |-> IF acc[i].address = r.address THEN m ELSE acc[i]])
            ELSE merge_messages(Tail(rows), Append(acc, m))

\* sorted(..., key=attrgetter('timestamp')): stable insertion sort
RECURSIVE insert_sorted(_, _)
insert_sorted(sorted, m) ==
    IF sorted = <<>> THEN <<m>>
    ELSE IF Head(sorted).timestamp <= m.timestamp
         THEN <<Head(sorted)>> \o insert_sorted(Tail(sorted), m)
         ELSE <<m>> \o sorted

\* the messages left in the order of their rows
sort_by_timestamp_RowOrder(msgs, acc) == msgs

RECURSIVE sort_by_timestamp(_, _)
sort_by_timestamp(msgs, acc) ==
    IF msgs = <<>> THEN acc
    ELSE sort_by_timestamp(Tail(msgs), insert_sorted(acc, Head(msgs)))

message_rows_of(db, conversation_id) ==
    SelectSeq(db.message, LAMBDA r : r.conversation_id = conversation_id)

\* _merge_conversations for one conversation row, given the pigeonhole rows
\* the statement selected for it
_merge_conversation(db, row, ph_rows) ==
    Conversation(row.secret_key, row.other_public_key, row.querier, row.query,
                 {_pigeonhole_from_row(r) : r \in ph_rows},
                 sort_by_timestamp(merge_messages(message_rows_of(db, row.id), <<>>), <<>>),
                 row.id)

\* _create_conversation_statement: conversation LEFT JOIN pigeonhole JOIN
\* message: a conversation without message rows is not selected
joined_ids(db) ==
    {id \in 1..Len(db.conversation) : message_rows_of(db, id) # <<>>}

\* get_conversations(): every selected conversation, with all its pigeonholes
get_conversations(db) ==
    [id \in joined_ids(db) |->
        _merge_conversation(db, db.conversation[id], pigeonhole_rows_of(db, id))]

\* the value None where a conversation is expected: it has no id
NoConversation == Conversation(None, None, FALSE, {}, {}, <<>>, None)

\* get_conversation(id)
get_conversation(db, id) ==
    IF id \in joined_ids(db) THEN get_conversations(db)[id] ELSE NoConversation

\* get_conversation_by_address: WHERE pigeonhole.address = address keeps the
\* joined rows of that pigeonhole only
get_conversation_by_address(db, address) ==
    LET rows == {r \in db.pigeonhole :
                    r.address = address /\ r.conversation_id \in joined_ids(db)}
    IN IF rows = {} THEN NoConversation
       ELSE LET r == CHOOSE r \in rows : TRUE
            IN _merge_conversation(db, db.conversation[r.conversation_id], {r})

\* get_token_server_key: latest by timestamp
NoKey == "None"

get_token_server_key ==
    IF server_key = {} THEN NoKey
    ELSE (CHOOSE r \in server_key : \A o \in server_key : o.timestamp <= r.timestamp).master_key

\* the row pop_token selects: ORDER BY timestamp DESC LIMIT 1, any of the
\* newest rows; NoRow when the table is empty
NoRow == [secret_key |-> None, token |-> [signer |-> NoKey, over |-> None], timestamp |-> None]

first_token_rows(table) ==
    IF table = {} THEN {NoRow}
    ELSE {r \in table : \A o \in table : o.timestamp <= r.timestamp}

\* pop_token without its DELETE
delete_token_KeepsRow(table, row) == table

\* DELETE FROM token WHERE token = row.token, unless no row was selected
delete_token(table, row) ==
    IF row = NoRow THEN table ELSE {r \in table : r.token # row.token}

\* AbeToken(secret_key, token), or None
NoToken == [secret_key |-> None, token |-> [signer |-> NoKey, over |-> None]]

AbeToken(row) == [secret_key |-> row.secret_key, token |-> row.token]

get_tokens(table) == {AbeToken(r) : r \in table}

\* --------------------------------------------------------------- DsnetApi
Range(seq) == {seq[i] : i \in 1..Len(seq)}

\* every order in which a SELECT without ORDER BY may return a set of rows
Orders(S) == {o \in [1..Cardinality(S) -> S] : \A i, j \in 1..Cardinality(S) : o[i] = o[j] => i = j}

\* gen_key_pair(): a key pair never generated before
FreshKey == MaxNodes + nbKeys + 1

\* Query.create(public_key, token, payload)
Query(public_key, abe_token, payload) ==
    [public_key |-> public_key, payload |-> payload,
     token_signer |-> abe_token.token.signer, signature_valid |-> TRUE]

NoQuery == [public_key |-> None, payload |-> {}, token_signer |-> NoKey,
            signature_valid |-> FALSE]

\* Query.validate that checks the token against the server key only
validate_IgnoresSignature(msg, key) ==
    key # NoKey /\ msg.token_signer = key

\* Query.validate(server_key): the blind signature of the token verifies
\* under server_key and the token key signed (public_key, payload); without
\* a stored server key (None) nothing verifies
validate(msg, key) ==
    key # NoKey /\ msg.token_signer = key /\ msg.signature_valid

\* MemoryIndex.search: the query terms that are entities of the index
search(payload) == payload \cap Entities

\* the on-the-wire form of a pigeonhole message carries no timestamp
to_bytes(msg) == [address |-> msg.address, payload |-> msg.payload, from_key |-> msg.from_key]

\* the HTTP requests of one operation: the queries POSTed to /bb/broadcast,
\* the addresses POSTed to /ph/{address}, the addresses fetched by GET
NoRequest == [bb |-> <<>>, post |-> <<>>, get |-> <<>>]

Done(op, out, requests) == [op |-> op, out |-> out, requests |-> requests]

\* the outcome of save_token_server_key(master_key)
KeySaved(master_key, out) ==
    [op |-> "save_token_server_key", out |-> out, requests |-> NoRequest,
     master_key |-> master_key]

\* the outcome of handling the frame msg of the notification stream
Received(msg, out, requests) ==
    [op |-> "handle_query", out |-> out, requests |-> requests, frame |-> msg]

\* the outcome of handling the PUBLICATION frame of public_key
Published(public_key, out) ==
    [op |-> "handle_publication", out |-> out, requests |-> NoRequest,
     public_key |-> public_key]

\* the outcome of handling the pigeonhole notification of adr_hex
Notified(adr_hex, out, requests) ==
    [op |-> "handle_ph_notification", out |-> out, requests |-> requests,
     adr_hex |-> adr_hex]

\* the tokens of one save_tokens call: n fresh tokens, from number first,
\* blind-signed by master_key, stamped with the same instant
TokenBatch(first, n, master_key) ==
    {[secret_key |-> 0 - k, token |-> [signer |-> master_key, over |-> k],
      timestamp |-> first] : k \in first..(first + n - 1)}

\* --------------------------------------------- objects as constructed
\* the frame made by cover_fn(); real messages are numbered from 1
Cover == 0

\* QueueMessageSender.__init__: an empty queue, _stop_asked unset, the task
\* of _send_coroutine created (pc: the position of that task).
\* accepted, ticks, sent, stop, before record what happened: the number of
\* messages accepted by send(), the sleeps completed, the frames passed to
\* send_fn, how far stop() is, and what had been accepted when it was called;
\* asked_in, asked_at: where the task was and how many frames it had passed
\* to send_fn when stop() was called
NewQueueMessageSender ==
    [queue |-> <<>>, _stop_asked |-> FALSE, pc |-> "while",
     accepted |-> 0, ticks |-> 0, sent |-> <<>>, stop |-> "no", before |-> 0,
     asked_in |-> "none", asked_at |-> 0]

\* DsnetApi.__init__ and the first line of start_listening: stop unset,
\* ws None (pc: the position of start_listening).
\* consecutive, refused, delivered record what happened: the errors counted
\* since the last successful connection or successfully handled frame,
\* whether a connection was refused, the frames passed to the callback
NewListener ==
    [stop |-> FALSE, ws |-> "None", pc |-> "start", url_ts |-> None,
     nb_errors |-> 0, frame |-> None,
     consecutive |-> 0, refused |-> FALSE, delivered |-> 0]

\* DsnetApi with no call of send_publication or get_or_create_nym started
\* (pc: the position of the call; nym, key: its locals)
NoCall == [op |-> "none", pc |-> "idle", nym |-> None, key |-> None, out |-> "none"]

\* the publishing side: the parameter and publication tables and the calls
\* that write them
publishing == <<parameter, publication, calls, nbUuids>>

\* the parts of the client the repository and the coordinator's handlers
\* leave alone
others == <<sender, listener, reachable, in_memory, publishing, responder>>

Unused ==
    /\ sender = NewQueueMessageSender
    /\ listener = NewListener
    /\ reachable = TRUE
    /\ parameter = {}
    /\ publication = <<>>
    /\ calls = [c \in 1..MaxCalls |-> NoCall]
    /\ nbUuids = 0
    /\ responder = <<>>

\* the repository as created by the migrations: every table empty
RepoInit ==
    /\ Unused
    /\ in_memory = NoConversation
    /\ peer = <<>>
    /\ token = {}
    /\ server_key = {}
    /\ conversation = <<>>
    /\ pigeonhole = {}
    /\ message = <<>>
    /\ publication_message = {}
    /\ clock = 1
    /\ nbKeys = 0
    /\ nbTokens = 0
    /\ bulletin = {}
    /\ ph_server = {}
    /\ popped = {}
    /\ last = Done("init", "ok", NoRequest)

\* save_peer on a peer table without its unique index
SavePeer_AlwaysInserts(public_key) ==
    /\ peer' = Append(peer, public_key)
    /\ last' = Done("save_peer", "ok", NoRequest)
    /\ UNCHANGED <<token, server_key, conversation, pigeonhole, message,
                   publication_message, clock, nbKeys, nbTokens, bulletin,
                   ph_server, popped>>

\* repository.save_peer: INSERT, an existing public key is ignored
SavePeer(public_key) ==
    /\ peer' = IF public_key \in Range(peer) THEN peer ELSE Append(peer, public_key)
    /\ last' = Done("save_peer", "ok", NoRequest)
    /\ UNCHANGED <<token, server_key, conversation, pigeonhole, message,
                   publication_message, clock, nbKeys, nbTokens, bulletin,
                   ph_server, popped>>

\* repository.save_token_server_key: INSERT; master_key is the primary key,
\* a key saved before raises IntegrityError
SaveTokenServerKey(master_key) ==
    /\ IF \E r \in server_key : r.master_key = master_key
       THEN /\ last' = KeySaved(master_key, "IntegrityError")
            /\ UNCHANGED server_key
       ELSE /\ server_key' = server_key \cup
                    {[master_key |-> master_key, timestamp |-> Cardinality(server_key) + 1]}
            /\ last' = KeySaved(master_key, "ok")
    /\ UNCHANGED <<peer, token, conversation, pigeonhole, message,
                   publication_message, clock, nbKeys, nbTokens, bulletin,
                   ph_server, popped>>

\* repository.save_tokens as fetch_pre_tokens calls it, after the server key
\* is stored: bulk insert of freshly generated tokens, each a blind signature
\* of that key over the token's own public key
SaveTokens(n) ==
    /\ nbTokens + n <= MaxTokens
    /\ server_key # {}
    /\ token' = token \cup TokenBatch(nbTokens + 1, n, get_token_server_key)
    /\ nbTokens' = nbTokens + n
    /\ last' = Done("save_tokens", "ok", NoRequest)
    /\ UNCHANGED <<peer, server_key, conversation, pigeonhole, message,
                   publication_message, clock, nbKeys, bulletin, ph_server, popped>>

\* repository.pop_token
PopToken ==
    /\ \E row \in first_token_rows(token) :
        /\ token' = delete_token(token, row)
        /\ popped' = IF row = NoRow THEN popped ELSE popped \cup {AbeToken(row)}
        /\ last' = [op |-> "pop_token", out |-> IF row = NoRow THEN "None" ELSE "ok",
                    requests |-> NoRequest, token |-> AbeToken(row)]
    /\ UNCHANGED <<peer, server_key, conversation, pigeonhole, message,
                   publication_message, clock, nbKeys, nbTokens, bulletin,
                   ph_server>>

\* the loop of send_query over the peers: one conversation saved per peer
RECURSIVE save_querier_conversations(_, _, _, _, _)
save_querier_conversations(db, peers, secret_key, query, now) ==
    IF peers = <<>> THEN db
    ELSE save_querier_conversations(
            save_conversation(db, create_from_querier(secret_key, Head(peers), query, now)),
            Tail(peers), secret_key, query, now)

\* send_query checking the token after the loop over the peers
send_query_saved_LateCheck(db, abe_token, peers, secret_key, query, now) ==
    save_querier_conversations(db, peers, secret_key, query, now)

\* send_query leaving out the peer that is this node
send_query_saved_ExcludeSelf(db, abe_token, peers, secret_key, query, now) ==
    IF abe_token = NoToken THEN db
    ELSE save_querier_conversations(db, SelectSeq(peers, LAMBDA k : k # Me),
                                    secret_key, query, now)

\* send_query, what it persists: nothing when pop_token gave None (it
\* raises NoTokenException before reading the peers)
send_query_saved(db, abe_token, peers, secret_key, query, now) ==
    IF abe_token = NoToken THEN db
    ELSE save_querier_conversations(db, peers, secret_key, query, now)

\* send_query broadcasting in the iteration of every peer
send_query_broadcasts_EveryPeer(abe_token, peers, query_msg) ==
    IF abe_token = NoToken THEN <<>> ELSE [idx \in 1..Len(peers) |-> query_msg]

\* send_query, what it POSTs to /bb/broadcast: the query, in the iteration
\* of the last peer only
send_query_broadcasts(abe_token, peers, query_msg) ==
    IF abe_token = NoToken THEN <<>>
    ELSE SelectSeq([idx \in 1..Len(peers) |-> IF idx = Len(peers) THEN query_msg ELSE NoQuery],
                   LAMBDA q : q # NoQuery)

\* api.send_query; accepted: the server answers the broadcast POST with 2xx
SendQuery(query, accepted) ==
    /\ nbKeys < MaxQueryKeys
    /\ nbKeys' = nbKeys + 1
    /\ \E row \in first_token_rows(token) :
        LET query_keys == FreshKey
            abe_token == AbeToken(row)
            db == send_query_saved(DB, abe_token, peer, 0 - query_keys, query, clock)
            posted == send_query_broadcasts(abe_token, peer, Query(query_keys, abe_token, query))
        IN /\ Len(db.conversation) <= MaxConversations
           /\ token' = delete_token(token, row)
           /\ popped' = IF row = NoRow THEN popped ELSE popped \cup {abe_token}
           /\ conversation' = db.conversation
           /\ pigeonhole' = db.pigeonhole
           /\ message' = db.message
           /\ clock' = IF db = DB THEN clock ELSE clock + 1
           /\ bulletin' = IF accepted THEN bulletin \cup Range(posted) ELSE bulletin
           /\ last' = Done("send_query",
                           IF abe_token = NoToken THEN "NoTokenException"
                           ELSE IF posted # <<>> /\ ~accepted THEN "ClientResponseError"
                           ELSE "ok",
                           [NoRequest EXCEPT !.bb = posted])
    /\ UNCHANGED <<peer, server_key, publication_message, nbTokens, ph_server>>

\* a remote node broadcasts a query through the server (well formed or not)
RemoteBroadcast(payload, signer) ==
    /\ nbKeys < MaxQueryKeys
    /\ nbKeys' = nbKeys + 1
    /\ bulletin' = bulletin \cup {[public_key |-> FreshKey, payload |-> payload,
                                   token_signer |-> signer, signature_valid |-> TRUE]}
    /\ last' = Done("remote_broadcast", "ok", NoRequest)
    /\ UNCHANGED <<peer, token, server_key, conversation, pigeonhole, message,
                   publication_message, clock, nbTokens, ph_server, popped>>

\* send_response that answers nothing to a query this node issued itself
send_response_SkipsOwnQuery(db, public_key, response_data, now) ==
    IF \E i \in 1..Len(db.conversation) :
            db.conversation[i].querier /\ db.conversation[i].public_key = public_key
    THEN db
    ELSE save_conversation(db, create_response(create_from_recipient(0 - Me, public_key),
                                               response_data, now))

\* api.send_response as called by handle_query: the state after it
send_response(db, public_key, response_data, now) ==
    save_conversation(db, create_response(create_from_recipient(0 - Me, public_key),
                                          response_data, now))

\* the pigeonhole message send_response POSTs
send_response_message(public_key, response_data, now) ==
    response_message(create_from_recipient(0 - Me, public_key), response_data, now)

\* api.handle_query on a QUERY frame of the notification stream; the frame
\* is a query of the bulletin board (delivered once or again after a resume)
\* or such a query with its signature altered.
\* accepted: the server answers the pigeonhole POST with 2xx
HandleQuery(msg, accepted) ==
    /\ IF validate(msg, get_token_server_key)
       THEN LET results == search(msg.payload)
                db == send_response(DB, msg.public_key, results, clock)
                response == send_response_message(msg.public_key, results, clock)
            IN /\ Len(db.conversation) <= MaxConversations
               /\ conversation' = db.conversation
               /\ pigeonhole' = db.pigeonhole
               /\ message' = db.message
               /\ clock' = clock + 1
               /\ ph_server' = IF accepted THEN ph_server \cup {to_bytes(response)}
                               ELSE ph_server
               /\ last' = Received(msg,
                               IF accepted THEN "ok" ELSE "ClientResponseError",
                               [NoRequest EXCEPT !.post = <<response.address>>])
       ELSE /\ last' = Received(msg, "invalid", NoRequest)
            /\ UNCHANGED <<conversation, pigeonhole, message, clock, ph_server>>
    /\ UNCHANGED <<peer, token, server_key, publication_message, nbKeys, nbTokens,
                   bulletin, popped>>

\* AddressMatchMessageRetriever.retrieve: for each pigeonhole with the short
\* address, GET its full address, add the message to its conversation and
\* save it; a non-2xx answer raises and ends the loop.
\* st = [db, get, out]; phs = the pigeonholes in the order the SELECT gave
RECURSIVE retrieve(_, _, _)
retrieve(st, phs, now) ==
    IF phs = <<>> THEN st
    ELSE LET ph == Head(phs)
             got == [st EXCEPT !.get = Append(@, ph.address)]
             held == {m \in ph_server : m.address = ph.address}
         IN IF held = {}
            THEN [got EXCEPT !.out = "ClientResponseError"]
            ELSE LET body == CHOOSE m \in held : TRUE
                     msg == PigeonHoleMessage(body.address, body.payload, ph.key_for_hash, now)
                     c == get_conversation_by_address(st.db, ph.address)
                 IN IF c.id = None
                    THEN [got EXCEPT !.out = "AttributeError"]
                    ELSE retrieve([got EXCEPT !.db = save_conversation(st.db, add_message(c, msg))],
                                  Tail(phs), now)

\* api.handle_ph_notification: retrieve returns None, so nothing follows it
HandlePhNotification(adr_hex) ==
    /\ \E phs \in Orders(get_pigeonholes_by_adr(DB, adr_hex)) :
        LET st == retrieve([db |-> DB, get |-> <<>>, out |-> "ok"], phs, clock)
        IN /\ conversation' = st.db.conversation
           /\ pigeonhole' = st.db.pigeonhole
           /\ message' = st.db.message
           /\ clock' = IF st.db = DB THEN clock ELSE clock + 1
           /\ last' = Notified(adr_hex, st.out, [NoRequest EXCEPT !.get = st.get])
    /\ UNCHANGED <<peer, token, server_key, publication_message, nbKeys, nbTokens,
                   bulletin, ph_server, popped>>

\* the address of the next message of the other side of the conversation
\* that listens on row: the first slot from the row's on that the server
\* does not hold yet
RECURSIVE next_peer_address(_, _)
next_peer_address(row, n) ==
    LET address == PigeonHoleAddress(row.dh_key, row.key_for_hash, n)
    IN IF \E m \in ph_server : m.address = address
       THEN next_peer_address(row, n + 1)
       ELSE address

\* the other side of a conversation sends its next message: the server
\* stores it at the address of its slot
PeerWrite(row) ==
    /\ Cardinality(ph_server) < MaxServerMsgs
    /\ LET address == next_peer_address(row, row.message_number)
       IN ph_server' = ph_server \cup
            {[address |-> address, payload |-> Encrypt(address, {"hi"}),
              from_key |-> row.key_for_hash]}
    /\ last' = Done("peer_write", "ok", NoRequest)
    /\ UNCHANGED <<peer, token, server_key, conversation, pigeonhole, message,
                   publication_message, clock, nbKeys, nbTokens, bulletin, popped>>

\* api.handle_publication -> repository.save_publication_message: INSERT;
\* public_key is unique, a second row for it raises IntegrityError
HandlePublication(public_key) ==
    /\ IF \E r \in publication_message : r.public_key = public_key
       THEN /\ last' = Published(public_key, "IntegrityError")
            /\ UNCHANGED publication_message
       ELSE /\ publication_message' = publication_message \cup
                    {[public_key |-> public_key,
                      created_at |-> Cardinality(publication_message) + 1]}
            /\ last' = Published(public_key, "ok")
    /\ UNCHANGED <<peer, token, server_key, conversation, pigeonhole, message,
                   clock, nbKeys, nbTokens, bulletin, ph_server, popped>>

\* the nodes that publish
Publishers == {MaxNodes}

\* frames the notification stream may carry as QUERY
QueryFrames == bulletin \cup {[q EXCEPT !.signature_valid = FALSE] : q \in bulletin}

\* the repository operations that set a node up, from the empty repository
RepoNext ==
    \/ \E k \in Nodes : SavePeer(k) /\ UNCHANGED others
    \/ \E mk \in MasterKeys : SaveTokenServerKey(mk) /\ UNCHANGED others
    \/ \E n \in 1..MaxTokens : SaveTokens(n) /\ UNCHANGED others
    \/ PopToken /\ UNCHANGED others

RepoSpec == RepoInit /\ [][RepoNext]_vars

\* a node set up as the tests' create_api does: the other nodes then this
\* node saved as peers, the server key and one batch of tokens saved or not
PeerLists == {[i \in 1..k |-> MaxNodes + 1 - i] : k \in 0..MaxNodes}

Init ==
    /\ Unused
    /\ in_memory = NoConversation
    /\ peer \in PeerLists
    /\ \E keyed \in BOOLEAN, n \in 0..MaxTokens :
        /\ keyed \/ n = 0
        /\ server_key = IF keyed THEN {[master_key |-> "mkA", timestamp |-> 1]} ELSE {}
        /\ token = TokenBatch(1, n, "mkA")
        /\ nbTokens = n
    /\ conversation = <<>>
    /\ pigeonhole = {}
    /\ message = <<>>
    /\ publication_message = {}
    /\ clock = 1
    /\ nbKeys = 0
    /\ bulletin = {}
    /\ ph_server = {}
    /\ popped = {}
    /\ last = Done("init", "ok", NoRequest)

\* the coordinator on the broadcast channel: queries sent, QUERY and
\* PUBLICATION frames of the notification stream handled
Next ==
    \/ \E q \in QueryPayloads, accepted \in BOOLEAN :
            SendQuery(q, accepted) /\ UNCHANGED others
    \/ \E q \in RemotePayloads, mk \in MasterKeys :
            RemoteBroadcast(q, mk) /\ UNCHANGED others
    \/ \E msg \in QueryFrames, accepted \in BOOLEAN :
            HandleQuery(msg, accepted) /\ UNCHANGED others
    \/ \E k \in Publishers : HandlePublication(k) /\ UNCHANGED others

Spec == Init /\ [][Next]_vars

\* the repository before anything is saved
EmptyDB == [conversation |-> <<>>, pigeonhole |-> {}, message |-> <<>>]

\* the token a set-up query spends
SetupToken == AbeToken(CHOOSE row \in TokenBatch(1, 1, "mkA") : TRUE)

\* handle_query answering n times the query of public_key (a frame and its
\* replays)
RECURSIVE answered(_, _, _, _, _)
answered(db, public_key, payload, n, now) ==
    IF n = 0 THEN db
    ELSE answered(send_response(db, public_key, search(payload), now),
                  public_key, payload, n - 1, now + 1)

\* conversations established on the broadcast channel: a query of this node
\* sent to its peers (sent) or a query of a remote node, answered n times by
\* handle_query
PhInit ==
    /\ Unused
    /\ in_memory = NoConversation
    /\ peer \in PeerLists
    /\ \E sent \in BOOLEAN, n \in 0..MaxConversations :
        LET query_keys == MaxNodes + 1
            payload == CHOOSE q \in (IF sent THEN QueryPayloads ELSE RemotePayloads) : TRUE
            queried == IF sent
                       THEN send_query_saved(EmptyDB, SetupToken, peer, 0 - query_keys, payload, 1)
                       ELSE EmptyDB
            db == answered(queried, query_keys, payload, n, 2)
        IN /\ Len(db.conversation) \in 1..MaxConversations
           /\ conversation = db.conversation
           /\ pigeonhole = db.pigeonhole
           /\ message = db.message
           /\ clock = n + 2
           /\ bulletin = {Query(query_keys, SetupToken, payload)}
           /\ ph_server = IF n = 0 THEN {}
                          ELSE {to_bytes(send_response_message(query_keys, search(payload), 2))}
    /\ server_key = {[master_key |-> "mkA", timestamp |-> 1]}
    /\ token = {}
    /\ nbTokens = 1
    /\ popped = {SetupToken}
    /\ publication_message = {}
    /\ nbKeys = 1
    /\ last = Done("init", "ok", NoRequest)

\* the coordinator on the pigeonholes: peers send messages, pigeonhole
\* notifications are handled
PhNext ==
    \/ \E row \in pigeonhole : PeerWrite(row) /\ UNCHANGED others
    \/ \E a \in Shorts : HandlePhNotification(a) /\ UNCHANGED others

PhSpec == PhInit /\ [][PhNext]_vars

\* ------------------------------------------------- QueueMessageSender
\* the frames one iteration of _send_coroutine passes to send_fn without
\* sending a cover frame
tick_frames_NoCover(queue) ==
    IF queue = <<>> THEN <<>> ELSE <<Head(queue)>>

\* the frames one iteration of _send_coroutine passes to send_fn after its
\* sleep: queue.get_nowait(), or cover_fn() on QueueEmpty
tick_frames(queue) ==
    IF queue = <<>> THEN <<Cover>> ELSE <<Head(queue)>>

\* get_nowait() that leaves the message in the queue
get_nowait_KeepsHead(queue) == queue

\* the queue after get_nowait()
get_nowait(queue) == IF queue = <<>> THEN queue ELSE Tail(queue)

\* QueueMessageSender.send: queue.put(message); the queue is unbounded
SenderSend ==
    /\ sender.accepted < MaxQueued
    /\ sender' = [sender EXCEPT !.queue = Append(@, sender.accepted + 1),
                                 !.accepted = @ + 1]

\* _send_coroutine at `while not self._stop_asked`: leave the loop (the task
\* is done) or start the sleep of distribution_fn()
SenderWhile ==
    /\ sender.pc = "while"
    /\ sender' = [sender EXCEPT !.pc = IF sender._stop_asked THEN "done" ELSE "sleep"]

\* the sleep completes (one tick): get_nowait or cover_fn, send_fn is called
\* (MaxTicks bounds the ticks of a sender that is not asked to stop)
SenderTick ==
    /\ sender.pc = "sleep"
    /\ sender.ticks < MaxTicks \/ sender._stop_asked
    /\ sender' = [sender EXCEPT !.pc = "send_fn",
                                 !.ticks = @ + 1,
                                 !.sent = @ \o tick_frames(sender.queue),
                                 !.queue = get_nowait(@)]

\* send_fn returns, or raises (the default send_fn raises on a non-2xx
\* answer) and the exception ends the task
SenderSent(ok) ==
    /\ sender.pc = "send_fn"
    /\ sender' = [sender EXCEPT !.pc = IF ok THEN "while" ELSE "failed"]

\* QueueMessageSender.stop, its first line: _stop_asked = True
SenderStop ==
    /\ sender.stop = "no"
    /\ sender' = [sender EXCEPT !._stop_asked = TRUE, !.stop = "called",
                                 !.before = sender.accepted,
                                 !.asked_in = sender.pc,
                                 !.asked_at = Len(sender.sent)]

\* stop() without `await self._message_sender`
SenderJoin_NoWait ==
    /\ sender.stop = "called"
    /\ sender' = [sender EXCEPT !.stop = "returned"]

\* QueueMessageSender.stop, `await self._message_sender`: returns (or
\* re-raises) once the task has ended
SenderJoin ==
    /\ sender.stop = "called"
    /\ sender.pc \in {"done", "failed"}
    /\ sender' = [sender EXCEPT !.stop = "returned"]

SenderInit ==
    /\ RepoInit

\* the queue sender, its callers and the event loop
SenderNext ==
    \/ SenderSend /\ UNCHANGED <<tables, rest, listener, reachable, in_memory, publishing, responder>>
    \/ SenderWhile /\ UNCHANGED <<tables, rest, listener, reachable, in_memory, publishing, responder>>
    \/ SenderTick /\ UNCHANGED <<tables, rest, listener, reachable, in_memory, publishing, responder>>
    \/ \E ok \in BOOLEAN :
            SenderSent(ok) /\ UNCHANGED <<tables, rest, listener, reachable, in_memory, publishing, responder>>
    \/ SenderStop /\ UNCHANGED <<tables, rest, listener, reachable, in_memory, publishing, responder>>
    \/ SenderJoin /\ UNCHANGED <<tables, rest, listener, reachable, in_memory, publishing, responder>>

SenderSpec == SenderInit /\ [][SenderNext]_vars

\* the steps of the task of _send_coroutine and the resumption of stop()
SenderStep ==
    \/ SenderWhile /\ UNCHANGED <<tables, rest, listener, reachable, in_memory, publishing, responder>>
    \/ SenderTick /\ UNCHANGED <<tables, rest, listener, reachable, in_memory, publishing, responder>>
    \/ \E ok \in BOOLEAN :
            SenderSent(ok) /\ UNCHANGED <<tables, rest, listener, reachable, in_memory, publishing, responder>>
    \/ SenderJoin /\ UNCHANGED <<tables, rest, listener, reachable, in_memory, publishing, responder>>

\* the sleep of distribution_fn() ends, send_fn returns or raises, and the
\* event loop runs the tasks that can take a step; send() and stop() are
\* not guaranteed to be called
SenderFairSpec == SenderSpec /\ WF_vars(SenderStep)

\* ------------------------------------------- DsnetApi.start_listening
\* MAX(timestamp) over the persisted broadcasts, None when there is none
get_last_broadcast_timestamp ==
    LET timestamps == {message[i].timestamp : i \in 1..Len(message)}
                        \cup {r.created_at : r \in publication_message}
    IN IF timestamps = {} THEN None
       ELSE CHOOSE t \in timestamps : \A o \in timestamps : o <= t

nb_max_errors == 5

\* `except ClientConnectorError` that counts the error
on_connector_error_Counts(l) ==
    [l EXCEPT !.nb_errors = @ + 1, !.refused = TRUE,
              !.pc = IF l.nb_errors + 1 >= nb_max_errors THEN "raised" ELSE "sleep"]

\* `except ClientConnectorError`: log and sleep reconnect_delay_seconds
on_connector_error(l) == [l EXCEPT !.refused = TRUE, !.pc = "sleep"]

\* `except Exception`: the session and the socket are closed by their
\* context managers, the error is counted and re-raised at nb_max_errors
on_exception(l) ==
    [l EXCEPT !.nb_errors = @ + 1, !.consecutive = @ + 1, !.frame = None,
              !.ws = IF @ = "open" THEN "closed" ELSE @,
              !.pc = IF l.nb_errors + 1 >= nb_max_errors THEN "raised" ELSE "while"]

\* start_listening before its loop: the notification URL is built from the
\* latest persisted timestamp, nb_errors = 0
ListenStart ==
    /\ listener.pc = "start"
    /\ listener' = [listener EXCEPT !.url_ts = get_last_broadcast_timestamp,
                                     !.nb_errors = 0, !.pc = "while"]

\* `while not self.stop`: return, or self.ws = None and ws_connect(url_ws)
ListenWhile ==
    /\ listener.pc = "while"
    /\ listener' = IF listener.stop THEN [listener EXCEPT !.pc = "done"]
                   ELSE [listener EXCEPT !.ws = "None", !.pc = "ws_connect"]

\* the connection attempt ends: refused when the server is unreachable
\* (ClientConnectorError); else established, or failed otherwise (such as a
\* handshake the server rejects)
ListenConnect(established) ==
    /\ listener.pc = "ws_connect"
    /\ listener' = IF ~reachable THEN on_connector_error(listener)
                   ELSE IF established
                        THEN [listener EXCEPT !.ws = "open", !.pc = "receive",
                                              !.consecutive = 0]
                        ELSE on_exception(listener)

\* asyncio.sleep(reconnect_delay_seconds) completes
ListenSleep ==
    /\ listener.pc = "sleep"
    /\ listener' = [listener EXCEPT !.pc = "while"]

\* `async for msg in self.ws`: the server sends the PUBLICATION frame of
\* public_key, the callback is called with it (delivered counts the frames
\* up to MaxFrames)
ListenFrame(public_key) ==
    /\ listener.pc = "receive"
    /\ listener.ws = "open"
    /\ listener' = [listener EXCEPT !.pc = "callback", !.frame = public_key,
                        !.delivered = IF @ < MaxFrames THEN @ + 1 ELSE @]

\* `async for msg in self.ws` ends: the socket was closed
ListenClosed ==
    /\ listener.pc = "receive"
    /\ listener.ws = "closed"
    /\ listener' = [listener EXCEPT !.pc = "while"]

\* websocket_callback -> handle_publication returns, or raises
ListenCallback ==
    /\ listener.pc = "callback"
    /\ HandlePublication(listener.frame)
    /\ listener' = IF last'.out = "ok"
                   THEN [listener EXCEPT !.pc = "receive", !.frame = None,
                                         !.consecutive = 0]
                   ELSE on_exception(listener)

\* DsnetApi.close, called by another task
Close ==
    /\ ~listener.stop
    /\ listener' = [listener EXCEPT !.stop = TRUE,
                                     !.ws = IF @ = "None" THEN @ ELSE "closed"]

\* the server goes down: an open socket is closed
ServerDown ==
    /\ reachable
    /\ reachable' = FALSE
    /\ listener' = [listener EXCEPT !.ws = IF @ = "open" THEN "closed" ELSE @]

ServerUp ==
    /\ ~reachable
    /\ reachable' = TRUE

\* a repository with or without a persisted publication, a server up or down
ListenInit ==
    /\ peer = <<>>
    /\ token = {}
    /\ server_key = {}
    /\ conversation = <<>>
    /\ pigeonhole = {}
    /\ message = <<>>
    /\ publication_message \in
            {{}, {[public_key |-> Me, created_at |-> 1]}}
    /\ clock = 1
    /\ nbKeys = 0
    /\ nbTokens = 0
    /\ bulletin = {}
    /\ ph_server = {}
    /\ popped = {}
    /\ last = Done("init", "ok", NoRequest)
    /\ sender = NewQueueMessageSender
    /\ listener = NewListener
    /\ reachable \in BOOLEAN
    /\ in_memory = NoConversation
    /\ parameter = {}
    /\ publication = <<>>
    /\ calls = [c \in 1..MaxCalls |-> NoCall]
    /\ nbUuids = 0
    /\ responder = <<>>

\* the steps of the task of start_listening
ListenerStep ==
    \/ ListenStart /\ UNCHANGED <<tables, rest, sender, reachable, in_memory, publishing, responder>>
    \/ ListenWhile /\ UNCHANGED <<tables, rest, sender, reachable, in_memory, publishing, responder>>
    \/ \E established \in BOOLEAN :
            ListenConnect(established)
                /\ UNCHANGED <<tables, rest, sender, reachable, in_memory, publishing, responder>>
    \/ ListenSleep /\ UNCHANGED <<tables, rest, sender, reachable, in_memory, publishing, responder>>
    \/ ListenClosed /\ UNCHANGED <<tables, rest, sender, reachable, in_memory, publishing, responder>>
    \/ ListenCallback /\ UNCHANGED <<sender, reachable, in_memory, publishing, responder>>

\* the listener, the server and the task that closes the client
ListenNext ==
    \/ ListenerStep
    \/ \E k \in Nodes :
            ListenFrame(k) /\ UNCHANGED <<tables, rest, sender, reachable, in_memory, publishing, responder>>
    \/ Close /\ UNCHANGED <<tables, rest, sender, reachable, in_memory, publishing, responder>>
    \/ ServerDown /\ UNCHANGED <<tables, rest, sender, in_memory, publishing, responder>>
    \/ ServerUp /\ UNCHANGED <<tables, rest, sender, listener, in_memory, publishing, responder>>

ListenSpec == ListenInit /\ [][ListenNext]_vars

\* the event loop runs the task of start_listening whenever it can take a
\* step; frames, close() and the server's availability are not guaranteed
ListenFairSpec == ListenSpec /\ WF_vars(ListenerStep)

\* --------------------------------------- conversations saved and loaded
\* the conversations selected WHERE public_key = public_key
get_conversations_by_key(db, public_key) ==
    {get_conversations(db)[id] :
        id \in {i \in joined_ids(db) : db.conversation[i].public_key = public_key}}

\* get_conversations_filter_by(querier=querier)
get_conversations_filter_by(db, querier) ==
    {get_conversations(db)[id] :
        id \in {i \in joined_ids(db) : db.conversation[i].querier = querier}}

\* a getter returned c
Load(getter, c) ==
    /\ in_memory' = c
    /\ last' = Done(getter, IF c = NoConversation THEN "None" ELSE "ok", NoRequest)
    /\ UNCHANGED <<tables, clock>>

\* get_conversation(id)
LoadById(id) == Load("get_conversation", get_conversation(DB, id))

\* get_conversation_by_key(public_key): the first conversation selected
LoadByKey(public_key) ==
    \E c \in get_conversations_by_key(DB, public_key) :
        Load("get_conversation_by_key", c)

\* get_conversation_by_address(address)
LoadByAddress(address) ==
    Load("get_conversation_by_address", get_conversation_by_address(DB, address))

\* get_conversations_filter_by(querier=querier), one of the list
LoadByFilter(querier) ==
    \E c \in get_conversations_filter_by(DB, querier) :
        Load("get_conversations_filter_by", c)

\* the caller answers in the loaded conversation at the instant timestamp:
\* Conversation.create_response
CreateResponse(timestamp) ==
    /\ in_memory # NoConversation
    /\ Len(in_memory.messages) < MaxMessages
    /\ in_memory' = create_response(in_memory, {"hi"}, timestamp)
    /\ last' = Done("create_response", "ok", NoRequest)
    /\ UNCHANGED <<tables, clock>>

\* the caller adds a message received in a pigeonhole the loaded
\* conversation listens on, stamped by its sender: Conversation.add_message
AddMessage(ph, timestamp) ==
    /\ Len(in_memory.messages) < MaxMessages
    /\ in_memory' = add_message(in_memory,
            PigeonHoleMessage(ph.address, Encrypt(ph.address, {"hello"}),
                              ph.key_for_hash, timestamp))
    /\ last' = Done("add_message", "ok", NoRequest)
    /\ UNCHANGED <<tables, clock>>

\* repository.save_conversation of the conversation held in memory
SaveConversation ==
    /\ in_memory # NoConversation
    /\ Len(message) + Len(in_memory.messages) <= MaxMessageRows
    /\ LET db == save_conversation(DB, in_memory)
       IN /\ conversation' = db.conversation
          /\ pigeonhole' = db.pigeonhole
          /\ message' = db.message
    /\ last' = Done("save_conversation", "ok", NoRequest)
    /\ UNCHANGED <<in_memory, clock>>

\* the tables and the clock aside
aside == <<peer, token, server_key, publication_message, nbKeys, nbTokens,
           bulletin, ph_server, popped, sender, listener, reachable, publishing, responder>>

\* a conversation established on the broadcast channel: a query of this node
\* sent to one peer, or a query of a remote node answered by handle_query
\* once or, replayed, twice
ConvInit ==
    /\ Unused
    /\ in_memory = NoConversation
    /\ peer = <<MaxNodes>>
    /\ \E n \in 0..2 :
        LET query_keys == MaxNodes + 1
            payload == CHOOSE q \in (IF n = 0 THEN QueryPayloads ELSE RemotePayloads) : TRUE
            db == IF n = 0
                  THEN send_query_saved(EmptyDB, SetupToken, peer, 0 - query_keys, payload, 1)
                  ELSE answered(EmptyDB, query_keys, payload, n, 1)
        IN /\ conversation = db.conversation
           /\ pigeonhole = db.pigeonhole
           /\ message = db.message
           /\ clock = IF n = 0 THEN 2 ELSE n + 1
           /\ bulletin = {Query(query_keys, SetupToken, payload)}
           /\ ph_server = {}
    /\ server_key = {[master_key |-> "mkA", timestamp |-> 1]}
    /\ token = {}
    /\ nbTokens = 1
    /\ popped = {SetupToken}
    /\ publication_message = {}
    /\ nbKeys = 1
    /\ last = Done("init", "ok", NoRequest)

\* a caller of the repository: load a conversation, use it, save it
ConvNext ==
    \/ \E id \in 1..Len(conversation) : LoadById(id) /\ UNCHANGED aside
    \/ \E id \in 1..Len(conversation) :
            LoadByKey(conversation[id].public_key) /\ UNCHANGED aside
    \/ \E row \in pigeonhole : LoadByAddress(row.address) /\ UNCHANGED aside
    \/ \E querier \in BOOLEAN : LoadByFilter(querier) /\ UNCHANGED aside
    \/ \E timestamp \in 1..MaxTime : CreateResponse(timestamp) /\ UNCHANGED aside
    \/ \E ph \in in_memory.pigeonholes, timestamp \in 1..MaxTime :
            AddMessage(ph, timestamp) /\ UNCHANGED aside
    \/ SaveConversation /\ UNCHANGED aside

ConvSpec == ConvInit /\ [][ConvNext]_vars

\* ------------------------------------------------------------------ claims
NewConversationIds == (Len(conversation) + 1)..Len(conversation')

\* C1: send_query on a repository without tokens raises NoTokenException,
\* POSTs nothing to /bb/broadcast and persists no conversation, pigeonhole
\* or message, whatever the number of peers.
C1_NoTokenNothingDone ==
    [][(last'.op = "send_query" /\ token = {}) =>
            /\ last'.out = "NoTokenException"
            /\ last'.requests = NoRequest
            /\ DB' = DB
            /\ get_conversations(DB') = get_conversations(DB)]_vars

C1_Witness ==
    /\ last.op = "send_query" /\ last.out = "NoTokenException"
    /\ Len(peer) >= 2 /\ conversation = <<>>

\* C2: a send_query that returns normally with peers P, |P| >= 1, persists
\* exactly |P| new conversations, one for each peer public key (this node's
\* own key included), all queriers with the key pair and the payload of the
\* query that was broadcast.
C2_OneConversationPerPeer ==
    [][(last'.op = "send_query" /\ last'.out = "ok" /\ Len(peer) >= 1) =>
            /\ Len(conversation') = Len(conversation) + Len(peer)
            /\ SubSeq(conversation', 1, Len(conversation)) = conversation
            /\ NewConversationIds \subseteq joined_ids(DB')
            /\ \A k \in Range(peer) :
                Cardinality({id \in NewConversationIds :
                                get_conversations(DB')[id].other_public_key = k}) = 1
            /\ \A id \in NewConversationIds :
                LET c == get_conversations(DB')[id]
                IN /\ c.querier
                   /\ c.public_key = last'.requests.bb[1].public_key
                   /\ c.secret_key = 0 - c.public_key
                   /\ c.query = last'.requests.bb[1].payload]_vars

C2_Witness ==
    /\ last.op = "send_query" /\ last.out = "ok"
    /\ Len(peer) >= 2 /\ Me \in Range(peer)
    /\ \E id \in joined_ids(DB) :
        get_conversations(DB)[id].querier /\ get_conversations(DB)[id].other_public_key = Me

\* C3: a send_query that returns normally with at least one peer makes
\* exactly one POST /bb/broadcast and removes exactly one token from the
\* store, whatever the number of peers.
C3_OneBroadcastOneToken ==
    [][(last'.op = "send_query" /\ last'.out = "ok" /\ Len(peer) >= 1) =>
            /\ Len(last'.requests.bb) = 1
            /\ Cardinality(token') = Cardinality(token) - 1
            /\ get_tokens(token') \subseteq get_tokens(token)]_vars

C3_Witness ==
    /\ last.op = "send_query" /\ last.out = "ok"
    /\ Len(peer) >= 2 /\ Len(last.requests.bb) = 1
    /\ Cardinality(token) = nbTokens - 1

\* C4: a token returned by pop_token is never returned again and is not in
\* get_tokens; a successful pop removes exactly the returned token; on an
\* empty store pop_token returns None and changes nothing; so n saved tokens
\* allow exactly n successful pops.
C4_PopTokenSingleUse ==
    /\ [](popped \cap get_tokens(token) = {})
    /\ [](Cardinality(popped) + Cardinality(token) = nbTokens)
    /\ [][last'.op = "pop_token" =>
            IF token = {}
            THEN last'.out = "None" /\ last'.token = NoToken
                 /\ token' = token /\ popped' = popped
            ELSE /\ last'.out = "ok"
                 /\ last'.token \in get_tokens(token)
                 /\ last'.token \notin popped
                 /\ get_tokens(token') = get_tokens(token) \ {last'.token}
                 /\ Cardinality(token') = Cardinality(token) - 1]_vars

C4_Witness ==
    /\ last.op = "pop_token" /\ last.out = "None"
    /\ nbTokens >= 2 /\ Cardinality(popped) = nbTokens

\* C5: handle_query on a query that does not validate against the stored
\* server key (no key stored, token signed by another key, or signature
\* altered) makes no request (no POST /ph/...) and leaves the repository
\* and the server's pigeonholes unchanged.
C5_InvalidQueryDropped ==
    [][(/\ last'.op = "handle_query"
        /\ \/ server_key = {}
           \/ last'.frame.token_signer # get_token_server_key
           \/ ~last'.frame.signature_valid) =>
            /\ last'.requests = NoRequest
            /\ DB' = DB
            /\ <<peer, token, server_key, publication_message>>'
                    = <<peer, token, server_key, publication_message>>
            /\ ph_server' = ph_server]_vars

C5_Witness ==
    /\ last.op = "handle_query" /\ last.out = "invalid"
    /\ ~last.frame.signature_valid
    /\ last.frame.token_signer = get_token_server_key
    /\ last.requests = NoRequest

\* C6: handle_query on a validly signed query makes exactly one POST
\* /ph/{address} and persists exactly one new conversation, a responder for
\* the query's key whose only message is the sent response, POSTed at that
\* message's address; also when the query is the echo of one this node sent.
C6_ValidQueryAnswered ==
    [][(/\ last'.op = "handle_query"
        /\ server_key # {}
        /\ last'.frame.token_signer = get_token_server_key
        /\ last'.frame.signature_valid) =>
            /\ Len(last'.requests.post) = 1
            /\ Len(conversation') = Len(conversation) + 1
            /\ SubSeq(conversation', 1, Len(conversation)) = conversation
            /\ Len(conversation') \in joined_ids(DB')
            /\ LET c == get_conversation(DB', Len(conversation'))
               IN /\ ~c.querier
                  /\ c.secret_key = 0 - Me
                  /\ c.other_public_key = last'.frame.public_key
                  /\ Len(c.messages) = 1
                  /\ nb_sent_messages(c) = 1
                  /\ last'.requests.post = <<c.messages[1].address>>]_vars

C6_Witness ==
    /\ last.op = "handle_query" /\ last.out = "ok"
    /\ Len(last.requests.post) = 1
    /\ \E i, j \in 1..Len(conversation) :
        /\ conversation[i].querier
        /\ conversation[i].public_key = last.frame.public_key
        /\ ~conversation[j].querier
        /\ conversation[j].other_public_key = last.frame.public_key

\* C9: handling a QUERY or PUBLICATION frame a second time, right after it
\* was handled (a frame replayed after a resume), changes neither the number
\* of persisted conversations nor what loading them returns.
C9_ReplayChangesNothing ==
    [][(\/ /\ last.op = "handle_query" /\ last.out # "ClientResponseError"
           /\ last'.op = "handle_query" /\ last'.frame = last.frame
        \/ /\ last.op = "handle_publication"
           /\ last'.op = "handle_publication" /\ last'.public_key = last.public_key) =>
            /\ Len(conversation') = Len(conversation)
            /\ get_conversations(DB') = get_conversations(DB)]_vars

\* the server holds a message at the address
ServerHolds(address) == \E m \in ph_server : m.address = address

\* the pigeonhole row is one the notification being handled is about: its
\* prefix is the notification's and the server holds its message
Notifies(row) ==
    row.adr_hex = last'.adr_hex /\ ServerHolds(row.address)

\* number of GET requests of the step at the address
NbGet(address) ==
    Cardinality({i \in 1..Len(last'.requests.get) : last'.requests.get[i] = address})

\* C7: when the prefix of a notification is that of a listening pigeonhole
\* of a persisted conversation and the server holds a message at the
\* pigeonhole's address, handling the notification makes exactly one GET at
\* that address and the conversation's received count grows by exactly one,
\* querier or responder; conversations without such a pigeonhole load as
\* before.
C7_MatchingMessageIngestedOnce ==
    [][last'.op = "handle_ph_notification" =>
            /\ \A row \in pigeonhole :
                (Notifies(row) /\ row.conversation_id \in joined_ids(DB)) =>
                    /\ NbGet(row.address) = 1
                    /\ nb_recv_messages(get_conversation(DB', row.conversation_id))
                        = nb_recv_messages(get_conversation(DB, row.conversation_id)) + 1
            /\ \A id \in joined_ids(DB) :
                (~\E row \in pigeonhole_rows_of(DB, id) : Notifies(row)) =>
                    get_conversation(DB', id) = get_conversation(DB, id)]_vars

\* C8: handling a notification whose prefix is that of no persisted
\* pigeonhole makes no HTTP request and changes no conversation, pigeonhole
\* or message.
C8_NoMatchNothingDone ==
    [][(/\ last'.op = "handle_ph_notification"
        /\ ~\E row \in pigeonhole : AdrHex(row.address) = last'.adr_hex) =>
            /\ last'.requests = NoRequest
            /\ last'.out = "ok"
            /\ DB' = DB
            /\ ph_server' = ph_server]_vars

C8_Witness ==
    /\ last.op = "handle_ph_notification" /\ last.requests = NoRequest
    /\ pigeonhole # {} /\ ph_server # {}
    /\ \A row \in pigeonhole : AdrHex(row.address) # last.adr_hex
    /\ \E row \in pigeonhole : ServerHolds(row.address)

\* the conversation has consumed a slot whose address has the prefix: it
\* holds a received message of such an address
Consumed(c, adr_hex) ==
    \E i \in 1..Len(c.messages) :
        /\ c.messages[i].from_key # c.public_key
        /\ c.messages[i].address # NoAddress
        /\ AdrHex(c.messages[i].address) = adr_hex

\* the slot the conversation listens on next has the prefix too and the
\* server holds its message
NextSlotNotified(c, adr_hex) ==
    /\ AdrHex(next_listening_pigeonhole(c).address) = adr_hex
    /\ ServerHolds(next_listening_pigeonhole(c).address)

C11_OneFramePerTick == Len(sender.sent) = sender.ticks

\* three ticks: a cover frame on the empty queue, then two queued messages,
\* a third one still waiting
C11_Witness ==
    /\ sender.ticks = 3
    /\ sender.sent = <<Cover, 1, 2>>
    /\ sender.queue = <<3>>

\* C12: stop() drains the queue: when stop() has returned, every message
\* accepted by send() before stop() was called has been passed to send_fn.
C12_StopDrains ==
    sender.stop = "returned" => \A m \in 1..sender.before : m \in Range(sender.sent)

\* C13: the listening loop aborts by re-raising exactly when the count of
\* consecutive errors reaches 5: errors separated by a successful connection
\* or a successfully handled frame do not add up.
C13_AbortsAtFiveConsecutive ==
    (listener.pc = "raised") <=> (listener.consecutive = nb_max_errors)

\* C14: after close() is called the listening task eventually terminates,
\* at whatever point of its execution close() arrives.
C14_CloseTerminates == listener.stop ~> (listener.pc \in {"done", "raised"})

\* C15: a refused connection is not counted as an error: the listener
\* sleeps, tests stop again and retries while it is not set; once the
\* server is reachable the attempt is not refused, and each frame the
\* listener then receives is the one handed to the callback.
C15_RefusedRetried ==
    [][listener'.pc # listener.pc =>
        /\ (listener.pc = "ws_connect" /\ ~reachable) =>
                /\ listener'.pc = "sleep"
                /\ listener'.nb_errors = listener.nb_errors
        /\ listener.pc = "sleep" => listener'.pc = "while"
        /\ (listener.pc = "while" /\ ~listener.stop) => listener'.pc = "ws_connect"
        /\ (listener.pc = "ws_connect" /\ reachable) => listener'.pc # "sleep"
        /\ listener.pc = "receive" =>
                \/ listener'.pc = "callback" /\ listener'.frame \in Nodes
                \/ listener'.pc = "while" /\ listener.ws = "closed"
        /\ listener.pc = "callback" =>
                /\ last'.op = "handle_publication"
                /\ last'.public_key = listener.frame]_vars

\* a frame was handled after a refused connection, and no error was counted
C15_Witness ==
    /\ listener.refused
    /\ listener.delivered > 0
    /\ listener.pc = "receive"
    /\ last.op = "handle_publication"
    /\ last.out = "ok"
    /\ listener.nb_errors = 0

\* C16: every (re)connection of the listener resumes from the latest
\* timestamp persisted at the time of that connection; no ts parameter is
\* sent only when nothing is persisted.
C16_ResumesFromLatest ==
    listener.pc = "ws_connect" => listener.url_ts = get_last_broadcast_timestamp

Loads(db) ==
    [all |-> get_conversations(db),
     by_address |-> [a \in {row.address : row \in db.pigeonhole} |->
                        get_conversation_by_address(db, a)]]

\* the conversation in memory is what a getter returns now
Unmodified ==
    /\ in_memory # NoConversation
    /\ \/ in_memory = get_conversation(DB, in_memory.id)
       \/ \E row \in pigeonhole : in_memory = get_conversation_by_address(DB, row.address)

\* C18: saving again a conversation as a getter returned it (by id, by key,
\* by address, by filter) is idempotent: the getters return afterwards what
\* they returned before (messages, listening pigeonholes, counts).
C18_SaveLoadedIdempotent ==
    [][(last'.op = "save_conversation" /\ Unmodified) => Loads(DB') = Loads(DB)]_vars

\* a conversation with a received message and an answer, loaded by address,
\* was saved again as loaded
C18_Witness ==
    /\ last.op = "save_conversation"
    /\ Unmodified
    /\ Len(in_memory.messages) = MaxMessages
    /\ \E row \in pigeonhole : in_memory = get_conversation_by_address(DB, row.address)
    /\ Len(message_rows_of(DB, in_memory.id)) > Len(in_memory.messages)

\* C19: the message table holds at most one row per message address of a
\* conversation: saving a conversation again adds no row for a message
\* already stored.
C19_OneRowPerAddress ==
    \A i, j \in 1..Len(message) :
        (/\ message[i].conversation_id = message[j].conversation_id
         /\ message[i].address = message[j].address) => i = j

\* the conversations the getters return
Loaded ==
    {Loads(DB).all[id] : id \in DOMAIN Loads(DB).all}
        \cup {Loads(DB).by_address[a] : a \in DOMAIN Loads(DB).by_address}

Sorted(msgs) ==
    \A i, j \in 1..Len(msgs) : i < j => msgs[i].timestamp <= msgs[j].timestamp

\* C20: a conversation returned by the getters carries its messages ordered
\* by timestamp ascending, each message (address) once, and its sent and
\* received counts are those of these messages.
C20_LoadedSortedOnce ==
    \A c \in Loaded :
        /\ Sorted(c.messages)
        /\ \A i, j \in 1..Len(c.messages) :
                c.messages[i].address = c.messages[j].address => i = j
        /\ {m.address : m \in Range(c.messages)}
                = {row.address : row \in Range(message_rows_of(DB, c.id))}
        /\ nb_sent_messages(c)
                = Cardinality({i \in 1..Len(c.messages) : c.messages[i].from_key = c.public_key})
        /\ nb_sent_messages(c) + nb_recv_messages(c)
                = Len(c.messages) + (IF c.querier THEN 0 ELSE 1)

\* a conversation whose rows are stored more than once and not in the order
\* of their timestamps
C20_Witness ==
    \E id \in joined_ids(DB) :
        LET rows == message_rows_of(DB, id)
        IN /\ \E i, j \in 1..Len(rows) : i < j /\ rows[i].timestamp > rows[j].timestamp
           /\ \E i, j \in 1..Len(rows) : i < j /\ rows[i].address = rows[j].address
           /\ Len(get_conversation(DB, id).messages) = MaxMessages

\* --------------------------------------- conversations of a DPSI query
\* MSPSIQuerier.gen_key(): a scalar
MspsiSecrets == 1..MaxSecrets

\* Conversation.query_mspsi_secret: None unless one was given to the
\* constructor
query_mspsi_secret(c) ==
    IF "query_mspsi_secret" \in DOMAIN c THEN c.query_mspsi_secret ELSE None

\* Conversation.query_type: DPSI when the conversation has an MSPSI secret
query_type(c) == IF query_mspsi_secret(c) = None THEN "CLEARTEXT" ELSE "DPSI"

\* Conversation.create_from_querier(secret_key, other_public_key, query,
\* query_mspsi_secret=mspsi_key)
create_from_querier_mspsi(secret_key, other_public_key, query, now, mspsi_key) ==
    create_from_querier(secret_key, other_public_key, query, now)
        @@ [query_mspsi_secret |-> mspsi_key]

\* the key pair of the query
QueryKey == MaxNodes + 1

\* a caller creates the querier conversation of a DPSI query with the peer
\* other_public_key
CreateFromQuerier(other_public_key, mspsi_key) ==
    /\ in_memory' = create_from_querier_mspsi(0 - QueryKey, other_public_key,
                        CHOOSE q \in QueryPayloads : TRUE, clock, mspsi_key)
    /\ last' = Done("create_from_querier", "ok", NoRequest)
    /\ UNCHANGED <<tables, clock>>

\* the peers of the querier: itself and another node
QuerierPeers == {Me, MaxNodes}

\* DPSI conversations created, saved and loaded by key
SecretNext ==
    \/ \E k \in QuerierPeers, mspsi_key \in MspsiSecrets :
            CreateFromQuerier(k, mspsi_key) /\ UNCHANGED aside
    \/ SaveConversation /\ UNCHANGED aside
    \/ LoadByKey(QueryKey) /\ UNCHANGED aside

SecretSpec == RepoInit /\ [][SecretNext]_vars

\* ------------------------------------------- DsnetApi.fetch_pre_tokens
\* the Content-Type headers the token server may answer with
Msgpack == "application/x-msgpack"
Html == "text/html; charset=utf-8"
ContentTypes == {Msgpack, Html, "application/json"}

\* "text/html" in content_type
is_html(content_type) == content_type = Html

\* the requests fetch_pre_tokens makes on the token server
GetPublicKey == "GET publickey"
PostCommitments == "POST commitments"
PostLogin == "POST login"
PostPretokens == "POST pretokens"

\* in place of a return value: the call raised
Raised == 0 - 1

\* the outcome of fetch_pre_tokens when the token server's key is public_key:
\* returned is its return value, token_requests the requests it made
Fetched(public_key, out, returned, token_requests) ==
    [op |-> "fetch_pre_tokens", out |-> out, requests |-> NoRequest,
     public_key |-> public_key, returned |-> returned,
     token_requests |-> token_requests]

\* fetch_pre_tokens without the comparison of the keys
key_differs_Always(fetched_key, local_key) == TRUE

\* server_key != local_key
key_differs(fetched_key, local_key) == fetched_key # local_key

\* the exchange raises InvalidAuthorizationResponse: the commitments are not
\* msgpack and the answer is not an HTML page or no credentials were given,
\* or the login is not answered 200, or the commitments asked again are not
\* msgpack
invalid_authorization(content_type, credentials, status, content_type2) ==
    /\ content_type # Msgpack
    /\ \/ ~is_html(content_type) \/ ~credentials
       \/ status # 200
       \/ content_type2 # Msgpack

\* the requests made after the key was found to differ
commitments_requests(content_type, credentials, status, content_type2) ==
    IF content_type = Msgpack THEN <<PostCommitments, PostPretokens>>
    ELSE IF ~is_html(content_type) \/ ~credentials THEN <<PostCommitments>>
    ELSE IF status # 200 THEN <<PostCommitments, PostLogin>>
    ELSE IF content_type2 # Msgpack THEN <<PostCommitments, PostLogin, PostCommitments>>
    ELSE <<PostCommitments, PostLogin, PostCommitments, PostPretokens>>

\* fetch_pre_tokens storing what it fetched whatever the authorization
reaches_save_Unchecked(content_type, credentials, status, content_type2) == TRUE

\* the call reaches save_token_server_key: no InvalidAuthorizationResponse
\* was raised on the way
reaches_save(content_type, credentials, status, content_type2) ==
    ~invalid_authorization(content_type, credentials, status, content_type2)

\* api.fetch_pre_tokens(username, password, form_parser)
\* fetched_key: the key the token server publishes
\* content_type, status, content_type2: the answers to the commitments
\* request, to the login and to the second commitments request
\* credentials: username and password are given; n: the pretokens answered
FetchPreTokens(fetched_key, content_type, credentials, status, content_type2, n) ==
    /\ IF ~key_differs(fetched_key, get_token_server_key)
       THEN /\ last' = Fetched(fetched_key, "ok", 0, <<GetPublicKey>>)
            /\ UNCHANGED <<server_key, token, nbTokens>>
       ELSE LET made == <<GetPublicKey>> \o
                        commitments_requests(content_type, credentials, status, content_type2)
                invalid == invalid_authorization(content_type, credentials, status, content_type2)
                out == IF invalid THEN "InvalidAuthorizationResponse" ELSE "ok"
            IN IF ~reaches_save(content_type, credentials, status, content_type2)
               THEN /\ last' = Fetched(fetched_key, out, Raised, made)
                    /\ UNCHANGED <<server_key, token, nbTokens>>
               ELSE IF \E r \in server_key : r.master_key = fetched_key
               THEN /\ last' = Fetched(fetched_key,
                                    IF invalid THEN out ELSE "IntegrityError", Raised, made)
                    /\ UNCHANGED <<server_key, token, nbTokens>>
               ELSE /\ nbTokens + n <= MaxTokens
                    /\ server_key' = server_key \cup
                            {[master_key |-> fetched_key,
                              timestamp |-> Cardinality(server_key) + 1]}
                    /\ token' = token \cup TokenBatch(nbTokens + 1, n, fetched_key)
                    /\ nbTokens' = nbTokens + n
                    /\ last' = Fetched(fetched_key, out, IF invalid THEN Raised ELSE n, made)
    /\ UNCHANGED <<peer, conversation, pigeonhole, message, publication_message,
                   clock, nbKeys, bulletin, ph_server, popped>>

\* a node fetching tokens over the epochs of the token server and spending
\* them
FetchNext ==
    \/ \E k \in MasterKeys, ct \in ContentTypes, credentials \in BOOLEAN,
          status \in {200, 401}, ct2 \in ContentTypes, n \in 1..MaxTokens :
            FetchPreTokens(k, ct, credentials, status, ct2, n) /\ UNCHANGED others
    \/ PopToken /\ UNCHANGED others

FetchSpec == RepoInit /\ [][FetchNext]_vars

\* ------------------------------------------- DsnetApi.send_publication
\* MemoryIndex.get_documents(): the documents of this node, each the set of
\* its entities
Documents == <<Entities>>

\* repository.get_parameter(key): the value of the row, or None
get_parameter(table, key) ==
    IF \E r \in table : r.key = key
    THEN (CHOOSE r \in table : r.key = key).value
    ELSE None

\* PublicationMessage(nym, public_key, publication, num_documents) as
\* broadcast on the bulletin board
PublicationMessage(nym, public_key, cuckoo_filter, num_documents) ==
    [nym |-> nym, public_key |-> public_key, cuckoo_filter |-> cuckoo_filter,
     num_documents |-> num_documents]

\* the calls of op that may run interleaved: each await of a call is a point
\* where another call runs
Ops == {"send_publication", "get_or_create_nym"}

\* send_publication up to its call of get_or_create_nym: gen_key_pair(),
\* index.publish(), index.get_documents(), MSPSIDocumentOwner.publish; or a
\* direct call of get_or_create_nym
CallStart(c, op) ==
    /\ calls[c].pc \in {"idle", "returned", "raised"}
    /\ IF op = "send_publication"
       THEN /\ nbKeys < MaxPublications
            /\ nbKeys' = nbKeys + 1
            /\ calls' = [calls EXCEPT ![c] =
                    [op |-> op, pc |-> "get_parameter", nym |-> None,
                     key |-> FreshKey, out |-> "none"]]
       ELSE /\ calls' = [calls EXCEPT ![c] =
                    [op |-> op, pc |-> "get_parameter", nym |-> None,
                     key |-> None, out |-> "none"]]
            /\ UNCHANGED nbKeys
    /\ last' = Done(op, "started", NoRequest)
    /\ UNCHANGED <<parameter, publication, nbUuids, bulletin>>

\* get_or_create_nym: nym = await repository.get_parameter("nym"); if it is
\* None, nym = str(uuid4()) and set_parameter follows
GetParameter(c) ==
    /\ calls[c].pc = "get_parameter"
    /\ LET nym == get_parameter(parameter, "nym")
       IN IF nym = None
          THEN /\ nbUuids' = nbUuids + 1
               /\ calls' = [calls EXCEPT ![c].nym = nbUuids + 1,
                                         ![c].pc = "set_parameter"]
          ELSE /\ calls' = [calls EXCEPT ![c].nym = nym, ![c].pc = "got_nym"]
               /\ UNCHANGED nbUuids
    /\ last' = Done("get_parameter", "ok", NoRequest)
    /\ UNCHANGED <<parameter, publication, nbKeys, bulletin>>

\* repository.set_parameter("nym", nym): INSERT; key is the primary key, a
\* second row for it raises IntegrityError
SetParameter(c) ==
    /\ calls[c].pc = "set_parameter"
    /\ IF \E r \in parameter : r.key = "nym"
       THEN /\ calls' = [calls EXCEPT ![c].pc = "raised", ![c].out = "IntegrityError"]
            /\ last' = Done("set_parameter", "IntegrityError", NoRequest)
            /\ UNCHANGED parameter
       ELSE /\ parameter' = parameter \cup {[key |-> "nym", value |-> calls[c].nym]}
            /\ calls' = [calls EXCEPT ![c].pc = "got_nym"]
            /\ last' = Done("set_parameter", "ok", NoRequest)
    /\ UNCHANGED <<publication, nbUuids, nbKeys, bulletin>>

\* a direct call of get_or_create_nym returns its nym
NymReturn(c) ==
    /\ calls[c].pc = "got_nym"
    /\ calls[c].op = "get_or_create_nym"
    /\ calls' = [calls EXCEPT ![c].pc = "returned", ![c].out = "ok"]
    /\ last' = Done("get_or_create_nym", "ok", NoRequest)
    /\ UNCHANGED <<parameter, publication, nbUuids, nbKeys, bulletin>>

\* send_publication: POST /bb/broadcast of the PublicationMessage, then
\* raise_for_status
\* accepted: the server answers with 2xx
PublicationPost(c, accepted) ==
    /\ calls[c].pc = "got_nym"
    /\ calls[c].op = "send_publication"
    /\ LET payload == PublicationMessage(calls[c].nym, calls[c].key, Documents,
                                         Len(Documents))
       IN IF accepted
          THEN /\ bulletin' = bulletin \cup {payload}
               /\ calls' = [calls EXCEPT ![c].pc = "save_publication"]
               /\ last' = Done("send_publication", "posted", NoRequest)
          ELSE /\ calls' = [calls EXCEPT ![c].pc = "raised",
                                         ![c].out = "ClientResponseError"]
               /\ last' = Done("send_publication", "ClientResponseError", NoRequest)
               /\ UNCHANGED bulletin
    /\ UNCHANGED <<parameter, publication, nbUuids, nbKeys>>

\* send_publication: repository.save_publication(Publication(key_pair.secret,
\* secret, nym, len(documents)))
SavePublication(c) ==
    /\ calls[c].pc = "save_publication"
    /\ publication' = Append(publication,
            [secret_key |-> 0 - calls[c].key, secret |-> calls[c].key,
             nym |-> calls[c].nym, nb_docs |-> Len(Documents),
             created_at |-> Len(publication) + 1])
    /\ calls' = [calls EXCEPT ![c].pc = "returned", ![c].out = "ok"]
    /\ last' = Done("send_publication", "ok", NoRequest)
    /\ UNCHANGED <<parameter, nbUuids, nbKeys, bulletin>>

\* what the calls of this section leave alone
unpublished == <<peer, token, server_key, conversation, pigeonhole, message,
                 publication_message, clock, nbTokens, ph_server, popped,
                 sender, listener, reachable, in_memory, responder>>

\* calls of send_publication and get_or_create_nym on one DsnetApi, run as
\* tasks of one event loop
NymNext ==
    \/ \E c \in 1..MaxCalls, op \in Ops : CallStart(c, op) /\ UNCHANGED unpublished
    \/ \E c \in 1..MaxCalls : GetParameter(c) /\ UNCHANGED unpublished
    \/ \E c \in 1..MaxCalls : SetParameter(c) /\ UNCHANGED unpublished
    \/ \E c \in 1..MaxCalls : NymReturn(c) /\ UNCHANGED unpublished
    \/ \E c \in 1..MaxCalls, accepted \in BOOLEAN :
            PublicationPost(c, accepted) /\ UNCHANGED unpublished
    \/ \E c \in 1..MaxCalls : SavePublication(c) /\ UNCHANGED unpublished

NymSpec == RepoInit /\ [][NymNext]_vars

\* ------------------------------------------------- DPSI query and reply
\* the peer that publishes and answers: the other node
Responder == MaxNodes

\* the documents of the responder: one document with the entity "foo"
ResponderDocuments == <<{"foo"}>>

\* the keywords the querier asks for
Keywords == <<"foo">>

\* MSPSIEncoder.encode -> MSPSIQuerier.query(kwds): each keyword hashed to a
\* point and raised to the secret; a point is the keyword with the set of
\* the scalars it was raised to
mspsi_query(kwds, secret) ==
    {[i |-> i - 1, kwd |-> kwds[i], exps |-> {secret}] : i \in 1..Len(kwds)}

\* the query bytes not encoded: line.encode()
raw_query(kwds) == {[raw |-> kwds[i]] : i \in 1..Len(kwds)}

\* unpackb(query) gives a list of points
is_points(query) == \A p \in query : "exps" \in DOMAIN p

\* MSPSIDocumentOwner.reply(secret, kwds): every point raised to the secret
mspsi_reply(secret, points) ==
    {[p EXCEPT !.exps = @ \cup {secret}] : p \in points}

\* MSPSIDocumentOwner.publish(entities, documents, n_hits): the cuckoo filter
\* holds, per document, the points of its entities raised to the secret
mspsi_publish(documents, secret) ==
    UNION {{[doc |-> d - 1, kwd |-> e, exps |-> {secret}] : e \in documents[d]} :
            d \in 1..Len(documents)}

\* the payloads api.send_query is called with in DPSI mode: the keywords as
\* typed, or encoded by MSPSIEncoder with its own secret
DpsiQueries ==
    {raw_query(Keywords)} \cup {mspsi_query(Keywords, e) : e \in MspsiSecrets}

\* the MSPSI secret a publication draws: a scalar never drawn before
PublicationSecret == MaxSecrets + Len(responder) + 1

\* the key pair send_publication generates at the responder
PublicationKey == MaxNodes + MaxQueryKeys + Len(responder) + 1

\* the responder runs send_publication: a key pair and an MSPSI secret are
\* drawn, the PublicationMessage is broadcast and the Publication saved
ResponderPublish ==
    /\ Len(responder) < MaxPublications
    /\ bulletin' = bulletin \cup
            {PublicationMessage("nym_bob", PublicationKey,
                                mspsi_publish(ResponderDocuments, PublicationSecret),
                                Len(ResponderDocuments))}
    /\ responder' = Append(responder,
            [secret_key |-> 0 - PublicationKey, secret |-> PublicationSecret,
             nym |-> "nym_bob", nb_docs |-> Len(ResponderDocuments),
             created_at |-> Len(responder) + 1])
    /\ last' = Done("remote_publication", "ok", NoRequest)
    /\ UNCHANGED <<peer, token, server_key, conversation, pigeonhole, message,
                   publication_message, clock, nbKeys, nbTokens, ph_server, popped>>

\* MspsiIndex.search(query): MSPSIDocumentOwner.reply with the secret of
\* the latest publication (get_publications orders by created_at DESC)
mspsi_search(publications, query) ==
    mspsi_reply(publications[Len(publications)].secret, query)

\* the responder runs handle_query with an MspsiIndex: a valid query whose
\* payload unpacks to points is answered with send_response; unpackb raises
\* on other bytes, and without a publication search returns None, which
\* create_response cannot encrypt
\* accepted: the server answers the pigeonhole POST with 2xx
ResponderHandleQuery(msg, accepted) ==
    /\ validate(msg, get_token_server_key)
    /\ is_points(msg.payload)
    /\ responder # <<>>
    /\ Cardinality(ph_server) < MaxServerMsgs
    /\ LET results == mspsi_search(responder, msg.payload)
           response == response_message(
                create_from_recipient(0 - Responder, msg.public_key), results, clock)
       IN /\ ph_server' = IF accepted THEN ph_server \cup {to_bytes(response)}
                          ELSE ph_server
          /\ last' = Done("remote_handle_query",
                          IF accepted THEN "ok" ELSE "ClientResponseError", NoRequest)
    /\ UNCHANGED <<peer, token, server_key, conversation, pigeonhole, message,
                   publication_message, clock, nbKeys, nbTokens, bulletin, popped>>

\* MSPSIQuerier.gen_key() in the iteration idx of send_query: a scalar
\* never drawn before
gen_key(idx) == MaxSecrets + MaxPublications + nbKeys * MaxNodes + idx

\* the Conversation objects the loop of send_query creates in DPSI mode, one
\* per peer, each with the mspsi_key drawn in its iteration
querier_conversations(peers, secret_key, query, now) ==
    [idx \in 1..Len(peers) |->
        create_from_querier_mspsi(secret_key, peers[idx], query, now, gen_key(idx))]

\* save_conversation of each of them in turn
RECURSIVE save_conversations(_, _)
save_conversations(db, convs) ==
    IF convs = <<>> THEN db
    ELSE save_conversations(save_conversation(db, Head(convs)), Tail(convs))

\* api.send_query with query_type DPSI; created: the Conversation objects
\* of its loop.
\* accepted: the server answers the broadcast POST with 2xx
DpsiSendQuery(query, accepted) ==
    /\ nbKeys < MaxQueryKeys
    /\ nbKeys' = nbKeys + 1
    /\ \E row \in first_token_rows(token) :
        LET query_keys == FreshKey
            abe_token == AbeToken(row)
            convs == IF abe_token = NoToken THEN <<>>
                     ELSE querier_conversations(peer, 0 - query_keys, query, clock)
            db == save_conversations(DB, convs)
            posted == send_query_broadcasts(abe_token, peer, Query(query_keys, abe_token, query))
        IN /\ Len(db.conversation) <= MaxConversations
           /\ token' = delete_token(token, row)
           /\ popped' = IF row = NoRow THEN popped ELSE popped \cup {abe_token}
           /\ conversation' = db.conversation
           /\ pigeonhole' = db.pigeonhole
           /\ message' = db.message
           /\ clock' = IF db = DB THEN clock ELSE clock + 1
           /\ bulletin' = IF accepted THEN bulletin \cup Range(posted) ELSE bulletin
           /\ last' = [op |-> "send_query",
                       out |-> IF abe_token = NoToken THEN "NoTokenException"
                               ELSE IF posted # <<>> /\ ~accepted THEN "ClientResponseError"
                               ELSE "ok",
                       requests |-> [NoRequest EXCEPT !.bb = posted],
                       created |-> convs]
    /\ UNCHANGED <<peer, server_key, publication_message, nbTokens, ph_server>>

\* the frames of the bulletin board by type
PublicationFrames == {m \in bulletin : "cuckoo_filter" \in DOMAIN m}
BroadcastQueries == {m \in bulletin : "payload" \in DOMAIN m}

\* the querier as test_mspsi_query_response sets it up: the responder and
\* itself saved as peers, the server key and one token saved
DpsiInit ==
    /\ Unused
    /\ in_memory = NoConversation
    /\ peer = <<Responder, Me>>
    /\ server_key = {[master_key |-> "mkA", timestamp |-> 1]}
    /\ token = TokenBatch(1, 1, "mkA")
    /\ nbTokens = 1
    /\ conversation = <<>>
    /\ pigeonhole = {}
    /\ message = <<>>
    /\ publication_message = {}
    /\ clock = 1
    /\ nbKeys = 0
    /\ bulletin = {}
    /\ ph_server = {}
    /\ popped = {}
    /\ last = Done("init", "ok", NoRequest)

\* what the querier's handlers leave alone
queried == <<sender, listener, reachable, in_memory, publishing>>

\* the responder publishes, the querier receives the publication and sends
\* a DPSI query, the responder answers, the querier is notified
DpsiNext ==
    \/ ResponderPublish /\ UNCHANGED queried
    \/ \E m \in PublicationFrames :
            HandlePublication(m.public_key) /\ UNCHANGED others
    \/ \E q \in DpsiQueries, accepted \in BOOLEAN :
            DpsiSendQuery(q, accepted) /\ UNCHANGED others
    \/ \E msg \in BroadcastQueries, accepted \in BOOLEAN :
            ResponderHandleQuery(msg, accepted) /\ UNCHANGED others
    \/ \E a \in Shorts : HandlePhNotification(a) /\ UNCHANGED others

DpsiSpec == DpsiInit /\ [][DpsiNext]_vars

\* ------------------------------------- ProbabilisticCoverMessageRetriever
\* the outcome of retrieve on the notification of adr_hex when
\* retrieve_decision_fn answers decision; prefix_get: the GETs made on the
\* prefix endpoint /ph/{adr_hex}; candidates: the array the server returned
CoverRetrieved(adr_hex, decision, out, prefix_get, candidates) ==
    [op |-> "cover_retrieve", out |-> out, requests |-> NoRequest,
     adr_hex |-> adr_hex, decision |-> decision, prefix_get |-> prefix_get,
     candidates |-> candidates]

\* retrieve that contacts the server at every notification
cover_gets_Always(pigeonholes, adr_hex, decision) == <<adr_hex>>

\* the GETs of retrieve: one on the prefix endpoint when a pigeonhole has
\* the prefix, else one when retrieve_decision_fn() is true
cover_gets(pigeonholes, adr_hex, decision) ==
    IF pigeonholes # {} THEN <<adr_hex>>
    ELSE IF decision THEN <<adr_hex>>
    ELSE <<>>

\* a candidate matched with any pigeonhole of the notification's prefix
cover_match_ByPrefix(pigeonholes, address) == pigeonholes

\* pigeonholes_by_address.get(message.address): the pigeonhole of the full
\* address of the candidate
cover_match(pigeonholes, address) ==
    {ph \in pigeonholes : ph.address = address}

\* the loop over the candidates of the response: a candidate whose address is
\* that of one of the pigeonholes selected before the loop is added to the
\* conversation of that address and the conversation is saved
\* st = [db, out]
RECURSIVE cover_ingest(_, _, _, _)
cover_ingest(st, candidates, pigeonholes, now) ==
    IF candidates = <<>> THEN st
    ELSE LET body == Head(candidates)
             found == cover_match(pigeonholes, body.address)
         IN IF found = {}
            THEN cover_ingest(st, Tail(candidates), pigeonholes, now)
            ELSE LET ph == CHOOSE ph \in found : TRUE
                     msg == PigeonHoleMessage(body.address, body.payload, ph.key_for_hash, now)
                     c == get_conversation_by_address(st.db, ph.address)
                 IN IF c.id = None
                    THEN [st EXCEPT !.out = "AttributeError"]
                    ELSE cover_ingest([st EXCEPT !.db = save_conversation(st.db, add_message(c, msg))],
                                      Tail(candidates), pigeonholes, now)

\* the messages the server holds under the prefix
held_by_prefix(adr_hex) == {m \in ph_server : AdrHex(m.address) = adr_hex}

\* the arrays the server may answer the GET on the prefix endpoint with: the
\* messages held in any order; one order stands for all when the array is
\* not read
cover_responses(adr_hex, read) ==
    IF read THEN Orders(held_by_prefix(adr_hex))
    ELSE {CHOOSE o \in Orders(held_by_prefix(adr_hex)) : TRUE}

\* ProbabilisticCoverMessageRetriever.retrieve on the notification of adr_hex
\* decision: what retrieve_decision_fn() answers if it is called
\* accepted: the server answers the GET with 2xx
CoverRetrieve(adr_hex, decision, accepted) ==
    /\ LET pigeonholes == get_pigeonholes_by_adr(DB, adr_hex)
           gets == cover_gets(pigeonholes, adr_hex, decision)
       IN \E candidates \in cover_responses(adr_hex, pigeonholes # {}) :
            IF pigeonholes # {}
            THEN IF accepted
                 THEN LET st == cover_ingest([db |-> DB, out |-> "ok"], candidates,
                                             pigeonholes, clock)
                      IN /\ conversation' = st.db.conversation
                         /\ pigeonhole' = st.db.pigeonhole
                         /\ message' = st.db.message
                         /\ clock' = IF st.db = DB THEN clock ELSE clock + 1
                         /\ last' = CoverRetrieved(adr_hex, decision, st.out, gets, candidates)
                 ELSE /\ last' = CoverRetrieved(adr_hex, decision, "ClientResponseError",
                                                gets, <<>>)
                      /\ UNCHANGED <<conversation, pigeonhole, message, clock>>
            ELSE /\ last' = CoverRetrieved(adr_hex, decision, "ok", gets,
                                           IF decision /\ accepted THEN candidates ELSE <<>>)
                 /\ UNCHANGED <<conversation, pigeonhole, message, clock>>
    /\ UNCHANGED <<peer, token, server_key, publication_message, nbKeys, nbTokens,
                   bulletin, ph_server, popped>>

\* the coordinator on the pigeonholes with the cover retriever
CoverNext ==
    \/ \E row \in pigeonhole : PeerWrite(row) /\ UNCHANGED others
    \/ \E a \in Shorts, decision \in BOOLEAN, accepted \in BOOLEAN :
            CoverRetrieve(a, decision, accepted) /\ UNCHANGED others

CoverSpec == PhInit /\ [][CoverNext]_vars

\* ------------------------------------------- concurrent send_query calls
\* send_query up to the first statement of pop_token: gen_key_pair(), then
\* `async with self.database.transaction()` (a BEGIN that reads nothing).
\* Each await of a call is a point where the other calls run
QueryStart(c) ==
    /\ calls[c].pc = "idle"
    /\ nbKeys < MaxCalls
    /\ nbKeys' = nbKeys + 1
    /\ calls' = [calls EXCEPT ![c] =
            [op |-> "send_query", pc |-> "fetch_one", key |-> FreshKey,
             row |-> NoRow, token |-> NoToken, out |-> "none"]]
    /\ last' = Done("send_query", "started", NoRequest)
    /\ UNCHANGED <<token, popped, conversation, pigeonhole, message, clock, bulletin>>

\* pop_token: row = await fetch_one(first); without a row it returns None
\* and send_query raises NoTokenException
PopFetchOne(c) ==
    /\ calls[c].pc = "fetch_one"
    /\ \E row \in first_token_rows(token) :
        IF row = NoRow
        THEN /\ calls' = [calls EXCEPT ![c].pc = "raised",
                                       ![c].out = "NoTokenException"]
             /\ last' = Done("send_query", "NoTokenException", NoRequest)
        ELSE /\ calls' = [calls EXCEPT ![c].pc = "delete", ![c].row = row]
             /\ last' = Done("fetch_one", "ok", NoRequest)
    /\ UNCHANGED <<token, popped, nbKeys, conversation, pigeonhole, message, clock,
                   bulletin>>

\* another call has deleted and has not left its transaction yet
in_write_transaction(c) == \E d \in 1..MaxCalls : d # c /\ calls[d].pc = "commit"

\* what the DELETE of pop_token may do: it is executed (its row count is
\* not read), or, while another call is in a write transaction and the
\* calls have each their own sqlite connection, it raises OperationalError
\* (database is locked); calls sharing one connection run their statements
\* in turn, the inner transaction being a savepoint of the outer one
delete_outcomes(c) ==
    IF in_write_transaction(c) THEN {"ok", "OperationalError"} ELSE {"ok"}

\* pop_token: await execute(DELETE ... WHERE token = row["token"])
PopDelete(c) ==
    /\ calls[c].pc = "delete"
    /\ \E outcome \in delete_outcomes(c) :
        IF outcome = "ok"
        THEN /\ token' = delete_token(token, calls[c].row)
             /\ calls' = [calls EXCEPT ![c].pc = "commit"]
             /\ last' = Done("delete", "ok", NoRequest)
        ELSE /\ calls' = [calls EXCEPT ![c].pc = "raised", ![c].out = outcome]
             /\ last' = Done("send_query", outcome, NoRequest)
             /\ UNCHANGED token
    /\ UNCHANGED <<popped, nbKeys, conversation, pigeonhole, message, clock, bulletin>>

\* pop_token returns AbeToken(row) on leaving its transaction, and
\* send_query goes on with it: the conversations saved, the query POSTed.
\* accepted: the server answers the broadcast POST with 2xx
PopReturn(c, query, accepted) ==
    /\ calls[c].pc = "commit"
    /\ LET abe_token == AbeToken(calls[c].row)
           db == send_query_saved(DB, abe_token, peer, 0 - calls[c].key, query, clock)
           posted == send_query_broadcasts(abe_token, peer,
                                           Query(calls[c].key, abe_token, query))
           out == IF posted # <<>> /\ ~accepted THEN "ClientResponseError" ELSE "ok"
       IN /\ Len(db.conversation) <= MaxConversations
          /\ popped' = popped \cup {abe_token}
          /\ conversation' = db.conversation
          /\ pigeonhole' = db.pigeonhole
          /\ message' = db.message
          /\ clock' = IF db = DB THEN clock ELSE clock + 1
          /\ bulletin' = IF accepted THEN bulletin \cup Range(posted) ELSE bulletin
          /\ calls' = [calls EXCEPT ![c].pc = IF out = "ok" THEN "returned" ELSE "raised",
                                    ![c].token = abe_token, ![c].out = out]
          /\ last' = Done("send_query", out, [NoRequest EXCEPT !.bb = posted])
    /\ UNCHANGED <<token, nbKeys>>

\* what the calls of send_query leave alone
unqueried == <<peer, server_key, publication_message, nbTokens, ph_server, sender,
               listener, reachable, in_memory, parameter, publication, nbUuids,
               responder>>

\* calls of send_query on one DsnetApi, run as tasks of one event loop
PopNext ==
    \/ \E c \in 1..MaxCalls : QueryStart(c) /\ UNCHANGED unqueried
    \/ \E c \in 1..MaxCalls : PopFetchOne(c) /\ UNCHANGED unqueried
    \/ \E c \in 1..MaxCalls : PopDelete(c) /\ UNCHANGED unqueried
    \/ \E c \in 1..MaxCalls, q \in QueryPayloads, accepted \in BOOLEAN :
            PopReturn(c, q, accepted) /\ UNCHANGED unqueried

PopSpec == Init /\ [][PopNext]_vars

\* ---------------------- send_message and the notification handler as tasks
NoMessage == PigeonHoleMessage(NoAddress, Clear({}), None, None)

\* a call of send_message or of handle_ph_notification in flight: its
\* position and its locals (phs: the pigeonholes retrieve still has to visit)
Call(op, pc, out, phs, msg, c) ==
    [op |-> op, pc |-> pc, out |-> out, phs |-> phs, message |-> msg, conversation |-> c]

Ended == {"idle", "returned", "raised"}

\* send_message: conversation = await get_conversation(conversation_id),
\* then response = conversation.create_response(message). A conversation
\* the join does not return is None: create_response raises AttributeError
MessageLoad(c, conversation_id) ==
    /\ calls[c].pc \in Ended
    /\ LET loaded == get_conversation(DB, conversation_id)
       IN IF loaded = NoConversation
          THEN /\ calls' = [calls EXCEPT ![c] =
                        Call("send_message", "raised", "AttributeError", <<>>,
                             NoMessage, NoConversation)]
               /\ last' = Done("send_message", "AttributeError", NoRequest)
          ELSE /\ Len(loaded.messages) < MaxMessages
               /\ calls' = [calls EXCEPT ![c] =
                        Call("send_message", "save", "none", <<>>,
                             response_message(loaded, {"hi"}, clock),
                             create_response(loaded, {"hi"}, clock))]
               /\ last' = Done("get_conversation", "ok", NoRequest)
    /\ UNCHANGED <<tables, clock, ph_server>>

\* send_message: await save_conversation(conversation)
MessageSave(c) ==
    /\ calls[c].op = "send_message"
    /\ calls[c].pc = "save"
    /\ Len(message) + Len(calls[c].conversation.messages) <= MaxMessageRows
    /\ LET db == save_conversation(DB, calls[c].conversation)
       IN /\ conversation' = db.conversation
          /\ pigeonhole' = db.pigeonhole
          /\ message' = db.message
    /\ clock' = clock + 1
    /\ calls' = [calls EXCEPT ![c].pc = "send"]
    /\ last' = Done("save_conversation", "ok", NoRequest)
    /\ UNCHANGED ph_server

\* send_message: await message_sender.send(response), the sender posting
\* the message to its pigeonhole.
\* accepted: the server answers the POST with 2xx
MessageSend(c, accepted) ==
    /\ calls[c].pc = "send"
    /\ ph_server' = IF accepted THEN ph_server \cup {to_bytes(calls[c].message)}
                    ELSE ph_server
    /\ calls' = [calls EXCEPT ![c].pc = IF accepted THEN "returned" ELSE "raised",
                              ![c].out = IF accepted THEN "ok" ELSE "ClientResponseError"]
    /\ last' = Done("send_message", IF accepted THEN "ok" ELSE "ClientResponseError",
                    [NoRequest EXCEPT !.post = <<calls[c].message.address>>])
    /\ UNCHANGED <<tables, clock>>

\* handle_ph_notification -> retrieve: await get_pigeonholes_by_adr(adr_hex)
NotificationStart(c, adr_hex) ==
    /\ calls[c].pc \in Ended
    /\ \E phs \in Orders(get_pigeonholes_by_adr(DB, adr_hex)) :
        calls' = [calls EXCEPT ![c] =
            Call("handle_ph_notification", IF phs = <<>> THEN "returned" ELSE "get",
                 IF phs = <<>> THEN "ok" ELSE "none", phs, NoMessage, NoConversation)]
    /\ last' = Notified(adr_hex, "started", NoRequest)
    /\ UNCHANGED <<tables, clock, ph_server>>

\* retrieve: GET /ph/{ph.address}, raise_for_status, from_bytes
RetrieveGet(c) ==
    /\ calls[c].pc = "get"
    /\ LET ph == Head(calls[c].phs)
           held == {m \in ph_server : m.address = ph.address}
       IN IF held = {}
          THEN /\ calls' = [calls EXCEPT ![c].pc = "raised",
                                         ![c].out = "ClientResponseError"]
               /\ last' = Done("retrieve", "ClientResponseError",
                               [NoRequest EXCEPT !.get = <<ph.address>>])
          ELSE LET body == CHOOSE m \in held : TRUE
               IN /\ calls' = [calls EXCEPT ![c].pc = "load",
                        ![c].message = PigeonHoleMessage(body.address, body.payload,
                                                         ph.key_for_hash, clock)]
                  /\ last' = Done("retrieve", "got",
                                  [NoRequest EXCEPT !.get = <<ph.address>>])
    /\ UNCHANGED <<tables, clock, ph_server>>

\* retrieve: conversation = await get_conversation_by_address(ph.address),
\* then conversation.add_message(message); without a conversation
\* conversation.id raises AttributeError
RetrieveLoad(c) ==
    /\ calls[c].pc = "load"
    /\ LET loaded == get_conversation_by_address(DB, Head(calls[c].phs).address)
       IN IF loaded = NoConversation
          THEN /\ calls' = [calls EXCEPT ![c].pc = "raised", ![c].out = "AttributeError"]
               /\ last' = Done("retrieve", "AttributeError", NoRequest)
          ELSE /\ Len(loaded.messages) < MaxMessages
               /\ calls' = [calls EXCEPT ![c].pc = "save",
                        ![c].conversation = add_message(loaded, calls[c].message)]
               /\ last' = Done("get_conversation_by_address", "ok", NoRequest)
    /\ UNCHANGED <<tables, clock, ph_server>>

\* retrieve: await save_conversation(conversation), then the next
\* pigeonhole of the loop
RetrieveSave(c) ==
    /\ calls[c].op = "handle_ph_notification"
    /\ calls[c].pc = "save"
    /\ Len(message) + Len(calls[c].conversation.messages) <= MaxMessageRows
    /\ LET db == save_conversation(DB, calls[c].conversation)
       IN /\ conversation' = db.conversation
          /\ pigeonhole' = db.pigeonhole
          /\ message' = db.message
    /\ clock' = clock + 1
    /\ calls' = [calls EXCEPT
            ![c].phs = Tail(@),
            ![c].pc = IF Tail(calls[c].phs) = <<>> THEN "returned" ELSE "get",
            ![c].out = IF Tail(calls[c].phs) = <<>> THEN "ok" ELSE "none"]
    /\ last' = Done("retrieve", "saved", NoRequest)
    /\ UNCHANGED ph_server

\* what these calls leave alone
untouched == <<peer, token, server_key, publication_message, nbKeys, nbTokens,
               bulletin, popped, sender, listener, reachable, in_memory, parameter,
               publication, nbUuids, responder>>

\* the notification handler and calls of send_message, tasks of one event
\* loop; the other side of a conversation writes to the server
RaceNext ==
    \/ \E row \in pigeonhole : PeerWrite(row) /\ UNCHANGED others
    \/ \E c \in 1..MaxCalls, id \in 1..Len(conversation) :
            MessageLoad(c, id) /\ UNCHANGED untouched
    \/ \E c \in 1..MaxCalls : MessageSave(c) /\ UNCHANGED untouched
    \/ \E c \in 1..MaxCalls, accepted \in BOOLEAN :
            MessageSend(c, accepted) /\ UNCHANGED untouched
    \/ \E c \in 1..MaxCalls, a \in Shorts :
            NotificationStart(c, a) /\ UNCHANGED untouched
    \/ \E c \in 1..MaxCalls : RetrieveGet(c) /\ UNCHANGED untouched
    \/ \E c \in 1..MaxCalls : RetrieveLoad(c) /\ UNCHANGED untouched
    \/ \E c \in 1..MaxCalls : RetrieveSave(c) /\ UNCHANGED untouched

RaceSpec == ConvInit /\ [][RaceNext]_vars

\* ------------------------- the listener on pigeonhole notifications
\* `async for msg in self.ws`: the server sends the notification of the
\* short address adr_hex, the callback is called with it
NotificationFrame(adr_hex) ==
    /\ listener.pc = "receive"
    /\ listener.ws = "open"
    /\ listener' = [listener EXCEPT !.pc = "callback", !.frame = adr_hex,
                        !.delivered = IF @ < MaxFrames THEN @ + 1 ELSE @]

\* websocket_callback -> handle_ph_notification returns, or raises: neither
\* of them catches what retrieve raises
NotificationCallback ==
    /\ listener.pc = "callback"
    /\ HandlePhNotification(listener.frame)
    /\ listener' = IF last'.out = "ok"
                   THEN [listener EXCEPT !.pc = "receive", !.frame = None,
                                         !.consecutive = 0]
                   ELSE on_exception(listener)

\* what the steps of the listener leave alone
unheard == <<tables, rest, sender, reachable, in_memory, publishing, responder>>

\* the listener of a node with a conversation, the server that notifies
\* short addresses, the other side of the conversation and the task that
\* closes the client
NotificationNext ==
    \/ ListenStart /\ UNCHANGED unheard
    \/ ListenWhile /\ UNCHANGED unheard
    \/ \E established \in BOOLEAN : ListenConnect(established) /\ UNCHANGED unheard
    \/ ListenClosed /\ UNCHANGED unheard
    \/ \E a \in Shorts : NotificationFrame(a) /\ UNCHANGED unheard
    \/ NotificationCallback
            /\ UNCHANGED <<sender, reachable, in_memory, publishing, responder>>
    \/ Close /\ UNCHANGED unheard
    \/ \E row \in pigeonhole : PeerWrite(row) /\ UNCHANGED others

NotificationSpec == ConvInit /\ [][NotificationNext]_vars

\* -------------------- the client configured with the QueueMessageSender
\* send_message: await message_sender.send(response) with the queue sender:
\* queue.put(response)
MessageQueue(c) ==
    /\ calls[c].pc = "send"
    /\ SenderSend
    /\ calls' = [calls EXCEPT ![c].pc = "returned", ![c].out = "ok"]
    /\ last' = Done("send_message", "ok", NoRequest)
    /\ UNCHANGED <<tables, clock, ph_server>>

\* the call of send_message in flight
Caller == CHOOSE c \in 1..MaxCalls : TRUE

\* what a handled query leaves alone
unanswered == <<sender, listener, reachable, in_memory, publishing, responder>>

\* queries handled and messages sent by a client whose message sender is
\* the queue sender, and the task of that sender
EmitNext ==
    \/ \E msg \in QueryFrames, accepted \in BOOLEAN :
            HandleQuery(msg, accepted) /\ UNCHANGED unanswered
    \/ \E id \in 1..Len(conversation) : MessageLoad(Caller, id) /\ UNCHANGED untouched
    \/ MessageSave(Caller) /\ UNCHANGED untouched
    \/ MessageQueue(Caller)
                /\ UNCHANGED <<peer, token, server_key, publication_message, nbKeys,
                               nbTokens, bulletin, popped, listener, reachable,
                               in_memory, parameter, publication, nbUuids, responder>>
    \/ SenderWhile /\ UNCHANGED <<tables, rest, listener, reachable, in_memory, publishing, responder>>
    \/ SenderTick /\ UNCHANGED <<tables, rest, listener, reachable, in_memory, publishing, responder>>
    \/ SenderSent(TRUE) /\ UNCHANGED <<tables, rest, listener, reachable, in_memory, publishing, responder>>

EmitSpec == ConvInit /\ [][EmitNext]_vars

NoTwice(seq) == \A i, j \in 1..Len(seq) : seq[i] = seq[j] => i = j

\* C21: peers form a set keyed by public key: save_peer never raises, no
\* two stored peers share a public key, and a save either leaves the peers
\* unchanged (the key was stored) or appends a key that was not stored.
C21_PeersUnique ==
    [][last'.op = "save_peer" =>
        /\ last'.out = "ok"
        /\ NoTwice(peer')
        /\ \/ peer' = peer
           \/ \E k \in Nodes : k \notin Range(peer) /\ peer' = Append(peer, k)]_vars

\* every node was saved as a peer: any further save is of a stored key
C21_Witness ==
    /\ last.op = "save_peer"
    /\ Len(peer) = MaxNodes

\* C23: the latest saved token-server key wins: after any save_token_server_key
\* call, get_token_server_key returns the key passed to that call, also when
\* the key was saved earlier (rotation A, B, A).
C23_LatestKeyWins ==
    [][last'.op = "save_token_server_key" =>
            get_token_server_key' = last'.master_key]_vars

\* C22: saving a PublicationMessage whose public key is already stored
\* does not raise and leaves exactly one row for that key.
C22_PublicationOnce ==
    [][last'.op = "handle_publication" =>
        /\ last'.out = "ok"
        /\ Cardinality({r \in publication_message' : r.public_key = last'.public_key}) = 1]_vars

\* the notification of the step finds no / some listening pigeonhole
PrefixMiss == last'.op = "cover_retrieve" /\ get_pigeonholes_by_adr(DB, last'.adr_hex) = {}
PrefixHit == last'.op = "cover_retrieve" /\ get_pigeonholes_by_adr(DB, last'.adr_hex) # {}

\* C24: on a prefix miss the cover retriever makes one GET on the prefix
\* endpoint if and only if retrieve_decision_fn() is true, and changes no
\* conversation, pigeonhole or message either way.
C24_MissCoverOnly ==
    [][PrefixMiss =>
        /\ last'.prefix_get = (IF last'.decision THEN <<last'.adr_hex>> ELSE <<>>)
        /\ last'.requests = NoRequest
        /\ last'.out = "ok"
        /\ UNCHANGED tables]_vars

C24_Witness ==
    /\ last.op = "cover_retrieve"
    /\ get_pigeonholes_by_adr(DB, last.adr_hex) = {}
    /\ last.prefix_get = <<last.adr_hex>>
    /\ last.candidates # <<>>

\* the addresses of the messages of conversation id as loaded from db
LoadedAddresses(db, id) ==
    LET messages == get_conversation(db, id).messages
    IN {messages[i].address : i \in 1..Len(messages)}

\* the candidates of the step whose full address is that of a pigeonhole of
\* conversation id listening before the step
Matched(id) ==
    {m.address : m \in {c \in Range(last'.candidates) :
        \E row \in pigeonhole :
            /\ row.adr_hex = last'.adr_hex
            /\ row.address = c.address
            /\ row.conversation_id = id}}

\* C25: on a prefix hit the cover retriever makes exactly one GET, on the
\* prefix endpoint, whatever retrieve_decision_fn would answer; the
\* candidates whose full address is that of a listening pigeonhole are
\* ingested into the conversation of that pigeonhole, the others have no
\* effect.
C25_HitIngestsMatches ==
    [][PrefixHit =>
        /\ last'.prefix_get = <<last'.adr_hex>>
        /\ last'.requests = NoRequest
        /\ conversation' = conversation
        /\ \A id \in 1..Len(conversation) :
                LoadedAddresses(DB', id) = LoadedAddresses(DB, id) \cup Matched(id)
        /\ (\A id \in 1..Len(conversation) : Matched(id) = {}) => UNCHANGED tables]_vars

\* two candidates came back, one ingested and one discarded
C25_Witness ==
    /\ last.op = "cover_retrieve"
    /\ last.out = "ok"
    /\ Len(last.candidates) >= 2
    /\ \E i \in 1..Len(last.candidates) :
            \E r \in Range(message) : r.address = last.candidates[i].address
    /\ \E i \in 1..Len(last.candidates) :
            \A r \in Range(message) : r.address # last.candidates[i].address

\* C26: a fetch_pre_tokens call that raises InvalidAuthorizationResponse has
\* stored neither a server key nor a token: the repository is as before.
C26_RefusedStoresNothing ==
    [][(last'.op = "fetch_pre_tokens" /\ last'.out = "InvalidAuthorizationResponse") =>
            /\ UNCHANGED <<server_key, token>>
            /\ UNCHANGED <<peer, tables, publication_message>>]_vars

\* a refused login after a key and tokens were stored in an earlier epoch
C26_Witness ==
    /\ last.op = "fetch_pre_tokens"
    /\ last.out = "InvalidAuthorizationResponse"
    /\ last.token_requests = <<GetPublicKey, PostCommitments, PostLogin>>
    /\ server_key # {}
    /\ token # {}

\* C27: when the token server's key is the stored latest key, fetch_pre_tokens
\* returns 0, asks neither commitments nor pretokens and stores nothing;
\* otherwise, when it succeeds, it returns the number of tokens it stored and
\* the fetched key is the stored latest key.
C27_EpochFetchedOnce ==
    [][last'.op = "fetch_pre_tokens" =>
        IF last'.public_key = get_token_server_key
        THEN /\ last'.out = "ok"
             /\ last'.returned = 0
             /\ last'.token_requests = <<GetPublicKey>>
             /\ UNCHANGED <<server_key, token>>
        ELSE last'.out = "ok" =>
                /\ token \subseteq token'
                /\ last'.returned = Cardinality(token' \ token)
                /\ last'.returned > 0
                /\ get_token_server_key' = last'.public_key]_vars

\* a second epoch fetched, and the same epoch asked again
C27_Witness ==
    /\ last.op = "fetch_pre_tokens"
    /\ last.out = "ok"
    /\ last.returned = 0
    /\ last.token_requests = <<GetPublicKey>>
    /\ Cardinality(server_key) = 2
    /\ token # {}

\* the calls that hold a nym: get_or_create_nym has returned it to them
Obtained == {c \in 1..MaxCalls : calls[c].pc \in {"got_nym", "save_publication", "returned"}}

\* C28: the nym is generated once: whatever the sequence or interleaving of
\* send_publication and get_or_create_nym calls, no call raises on the nym,
\* every call obtains the same nym, and every stored publication carries the
\* stored parameter 'nym'.
C28_NymOnce ==
    /\ \A c \in 1..MaxCalls : calls[c].out # "IntegrityError"
    /\ \A c, d \in Obtained : calls[c].nym = calls[d].nym
    /\ \A i \in 1..Len(publication) :
            publication[i].nym = get_parameter(parameter, "nym")

\* C29: a querier conversation created with a query_mspsi_secret, saved and
\* then loaded by its key has the same query_mspsi_secret and the query type
\* DPSI.
C29_MspsiSecretRoundTrip ==
    [][(/\ last.op = "save_conversation"
        /\ query_mspsi_secret(in_memory) # None
        /\ last'.op = "get_conversation_by_key"
        /\ in_memory'.public_key = in_memory.public_key
        /\ in_memory'.other_public_key = in_memory.other_public_key) =>
            /\ query_mspsi_secret(in_memory') = query_mspsi_secret(in_memory)
            /\ query_type(in_memory') = "DPSI"]_vars

\* MSPSIQuerier.process_reply on a reply decoded with the secret of the
\* query: the documents of the publication matching each keyword
Matches(documents, kwds) ==
    UNION {{[doc |-> d - 1, i |-> i - 1] :
                i \in {j \in 1..Len(kwds) : kwds[j] \in documents[d]}} :
            d \in 1..Len(documents)}

\* the querier's conversations with the responder on a DPSI query for the
\* keywords, sent after the publication was received and since answered
Answered ==
    {c \in get_conversations_filter_by(DB, TRUE) :
        /\ c.other_public_key = Responder
        /\ c.query \in {mspsi_query(Keywords, e) : e \in MspsiSecrets}
        /\ publication_message # {}
        /\ nb_recv_messages(c) > 0}

\* C30: once the responder has published a document with the entity "foo",
\* the querier has received the publication and its DPSI query for "foo" is
\* answered, the reply the querier holds is the processed one (document 0
\* matches keyword 0 and nothing else), the querier finds the publication
\* message of the conversation's peer, and the conversation has the secret
\* the query was blinded with.
C30_DpsiReplyProcessed ==
    \A c \in Answered :
        /\ \A i \in 1..Len(c.messages) :
                c.messages[i].from_key # c.public_key =>
                    c.messages[i].payload.data = Matches(ResponderDocuments, Keywords)
        /\ \E r \in publication_message : r.public_key = c.other_public_key
        /\ \A p \in c.query : p.exps = {query_mspsi_secret(c)}

\* C31: save_conversation is an upsert by id, the id being assigned at the
\* first persist: called twice in a row on the same newly created in-memory
\* conversation, the second call adds no conversation.
C31_SaveTwiceOneConversation ==
    [][(/\ last.op = "save_conversation"
        /\ in_memory.id = None
        /\ last'.op = "save_conversation") =>
            conversation' = conversation]_vars

\* the calls of send_query that got a token from pop_token
Popped == {c \in 1..MaxCalls : calls[c].op = "send_query" /\ calls[c].token # NoToken}

\* C32: pop_token is atomic under concurrency: two concurrent send_query
\* calls never obtain the same token, and when a single token was stored
\* and both calls have ended, one of them got it and the other raised
\* NoTokenException.
C32_PopTokenAtomic ==
    /\ \A c, d \in Popped : calls[c].token = calls[d].token => c = d
    /\ (/\ nbTokens = 1
        /\ \A c \in 1..MaxCalls : calls[c].pc \in {"returned", "raised"}) =>
            \E c \in Popped :
                \A d \in 1..MaxCalls : d # c => calls[d].out = "NoTokenException"

\* C33: no lost update on a conversation: the save of send_message,
\* interleaved with the ingest of an incoming message for the same
\* conversation, deletes no listening pigeonhole of the conversation (the
\* one the ingest opened stays persisted).
C33_NoLostUpdate ==
    [][\A c \in 1..MaxCalls :
        (/\ calls[c].op = "send_message"
         /\ calls[c].pc = "save"
         /\ calls'[c].pc = "send") =>
            \A row \in pigeonhole :
                row.conversation_id = calls[c].conversation.id => row \in pigeonhole']_vars

\* the notification being handled collides: a listening pigeonhole has its
\* short address and the server holds no message at the full address of
\* any pigeonhole with that short address
Collides ==
    /\ get_pigeonholes_by_adr(DB, listener.frame) # {}
    /\ \A ph \in get_pigeonholes_by_adr(DB, listener.frame) : ~ServerHolds(ph.address)

\* C34: a notification whose prefix is that of a listening pigeonhole while
\* the server holds no message at the pigeonhole's full address is skipped:
\* no exception reaches the loop of start_listening, its error count does
\* not increase and nothing persisted changes.
C34_CollisionSkipped ==
    [][(listener.pc = "callback" /\ listener'.pc # "callback" /\ Collides) =>
            /\ last'.out = "ok"
            /\ listener'.nb_errors = listener.nb_errors
            /\ listener'.pc = "receive"
            /\ DB' = DB]_vars

\* C35: once a new token-server key is stored, pop_token returns no token
\* issued under an older key: a token it returns is signed by the latest
\* stored key.
C35_NoStaleToken ==
    [][(last'.op = "pop_token" /\ last'.out = "ok") =>
            last'.token.token.signer = get_token_server_key]_vars

\* the real messages among the frames passed to send_fn
RealFrames(frames) == SelectSeq(frames, LAMBDA f : f # Cover)

\* C36: at each tick of the queue sender the frame emitted is the oldest
\* queued message when the queue is not empty, and a cover frame exactly
\* when it is empty; so the real messages are emitted in the order send()
\* accepted them, each at most once, one per tick.
C36_OldestFirst ==
    /\ [][sender'.ticks # sender.ticks =>
            /\ sender'.ticks = sender.ticks + 1
            /\ sender'.sent = Append(sender.sent,
                    IF sender.queue = <<>> THEN Cover ELSE Head(sender.queue))
            /\ sender'.queue = IF sender.queue = <<>> THEN <<>> ELSE Tail(sender.queue)]_vars
    /\ [](RealFrames(sender.sent) \o sender.queue = [m \in 1..sender.accepted |-> m])

\* a message sent at the first tick, a cover frame at the second tick on
\* the empty queue, then the older of two messages queued since
C36_Witness ==
    /\ sender.ticks = 3
    /\ sender.sent = <<1, Cover, 2>>
    /\ sender.queue = <<3>>

\* stop() was called while the task of the sender was in its sleep
AskedAsleep == sender.asked_in = "sleep"

\* C37: stop() called while the sender task sleeps terminates: the task
\* finishes the tick in progress, passing exactly one more frame to send_fn
\* when the sleep ends, then exits; stop() returns after that only, and no
\* frame is emitted once it has returned.
C37_StopTerminates ==
    /\ [](AskedAsleep => Len(sender.sent) <= sender.asked_at + 1)
    /\ []((AskedAsleep /\ sender.stop = "returned") =>
            /\ sender.pc \in {"done", "failed"}
            /\ Len(sender.sent) = sender.asked_at + 1)
    /\ [][sender.stop = "returned" => sender'.sent = sender.sent]_vars
    /\ (AskedAsleep ~> sender.stop = "returned")

\* stop() called during the second sleep with a message queued: that
\* message is the one more frame, the task has left its loop, stop() has
\* returned
C37_Witness ==
    /\ AskedAsleep
    /\ sender.stop = "returned"
    /\ sender.pc = "done"
    /\ sender.asked_at = 1
    /\ sender.sent = <<Cover, 1>>

\* C38: a token is consumed only by a query that is issued: a send_query
\* removes one token from the store when the server accepted its broadcast
\* and none otherwise (the POST was rejected, there is no peer, or there
\* was no token).
C38_TokenForIssuedQuery ==
    [][last'.op = "send_query" =>
            Cardinality(token) - Cardinality(token') =
                IF last'.out = "ok" /\ last'.requests.bb # <<>> THEN 1 ELSE 0]_vars

\* C39: every pigeonhole message the client emits goes through the
\* configured message sender: a handled query and a send_message hand their
\* message to message_sender.send (the queue sender accepts one more
\* message) and make no POST /ph/{address} themselves.
C39_ThroughTheSender ==
    [][(\/ last'.op = "handle_query" /\ conversation' # conversation
        \/ \E c \in 1..MaxCalls : calls[c].pc = "send" /\ calls'[c].pc # "send") =>
            /\ last'.requests.post = <<>>
            /\ sender'.accepted = sender.accepted + 1]_vars

\* C40: in DPSI mode one send_query uses one fresh MSPSI scalar s: every
\* conversation it creates, one per peer, has that s, in memory and once
\* persisted, and s is the scalar the broadcast query is blinded with.
C40_OneScalarPerQuery ==
    [][(nbKeys' # nbKeys /\ last'.op = "send_query" /\ last'.out = "ok"
            /\ last'.created # <<>>) =>
        LET s == query_mspsi_secret(last'.created[1])
        IN /\ s # None
           /\ \A idx \in 1..Len(last'.created) :
                query_mspsi_secret(last'.created[idx]) = s
           /\ is_points(last'.requests.bb[1].payload)
           /\ \A p \in last'.requests.bb[1].payload : p.exps = {s}
           /\ \A id \in NewConversationIds :
                /\ id \in joined_ids(DB')
                /\ query_mspsi_secret(get_conversations(DB')[id]) = s]_vars

====
